---- MODULE Spec2Model ----
(***************************************************************************)
(* A model of the spatialbench evaluation harness: the dataset cache and   *)
(* its manifest (harness/utils.py), the per-evaluation state machine       *)
(* EvalRunner.run (harness/runner.py) and the batch command (cli.py).      *)
(***************************************************************************)
EXTENDS Integers, Sequences, FiniteSets, TLC

\* ------------------------------------------------------------------ bounds
\* Calls of download_single_dataset each worker process may make.
MaxCalls == 2

\* ------------------------------------------------------------- value domains
\* Worker processes sharing one cache directory.
Workers == {"w1", "w2"}

\* Dataset URIs. u1 and u3 share a basename, u2 has its own.
URIs == {"u1", "u2", "u3"}

None == "None"

\* Path(uri).name
PathName(uri) == IF uri = "u2" THEN "y.h5ad" ELSE "x.csv"

\* hashlib.sha256(uri.encode()).hexdigest()[:16]: one digest per URI.
UriHash(uri) == CASE uri = "u1" -> "h1" [] uri = "u2" -> "h2" [] OTHER -> "h3"

\* get_cache_key without the digest: the basename alone.
get_cache_key_NameOnly(uri) == <<"", PathName(uri)>>

\* f"{uri_hash}__{filename}"
get_cache_key(uri) == <<UriHash(uri), PathName(uri)>>

EmptyManifest == [u \in {} |-> None]

\* if uri in manifest: cached_file = cache_dir / manifest[uri]; if cached_file.exists()
CacheHit(m, f, uri) == uri \in DOMAIN m /\ m[uri] \in f

\* manifest[uri] = cache_key without the save of line 64.
ManifestPut_NotSaved(m, uri) == m

\* manifest[uri] = cache_key, on the caller's copy of the manifest
ManifestPut(m, uri) ==
    [u \in (DOMAIN m) \cup {uri} |-> IF u = uri THEN get_cache_key(uri) ELSE m[u]]

VARIABLES
    manifest,    \* contents of cache/manifest.json: URI -> cache key
    files,       \* cache keys for which a file exists in the cache directory
    downloads,   \* URI -> number of completed remote retrievals (latch cp)
    writers,     \* URI -> workers that wrote the cache file of that URI
    fetched,     \* URIs for which a download_single_dataset call has returned
    returned,    \* URI -> the cache keys of the paths its calls returned, in order
    wpc,         \* worker -> position inside download_single_dataset
    wuri,        \* worker -> the uri argument of its call in progress
    wman,        \* worker -> its local copy of the manifest (line 41)
    calls        \* worker -> calls started

VARIABLES
    pc,             \* position of the process inside EvalRunner.run
    test_case,      \* self.test_case: data_node and grader of the task spec
    keep_workspace, \* self.keep_workspace
    agent_function, \* which agent function run() was given
    node,           \* index of the next data node download_data stages
    work_dir,       \* the workspace directory: exists, links, eval_answer.json
    agent_answer,   \* local agent_answer of run()
    agent_metadata, \* local agent_metadata of run(): the keys it holds
    grader_result,  \* local grader_result of run()
    result_dict,    \* what run() returned
    hist            \* what happened in this run (observation only)

VARIABLES
    bpc,        \* position of the batch command
    eval_files, \* list(eval_dir.rglob("*.json"))
    options,    \* --agent, --parallel, --keep-workspace, --output
    all_uris,   \* the URIs batch_download_datasets has still to fetch
    pending,    \* indices of eval_files not yet evaluated
    current,    \* index of the evaluation in progress, 0 if none
    results,    \* the results list
    summary     \* the counts of the batch summary

cacheVars == <<manifest, files, downloads, writers, fetched, returned>>
workerVars == <<wpc, wuri, wman, calls>>
runVars == <<pc, test_case, keep_workspace, agent_function, node, work_dir,
             agent_answer, agent_metadata, grader_result, result_dict, hist>>
batchVars == <<bpc, eval_files, options, all_uris, pending, current, results, summary>>
VARIABLES
    workspace,  \* .spatialbench/workspace: path -> the directory found there
    last_call,  \* the last setup_workspace call and the path it returned
    pool        \* the evaluations a ProcessPoolExecutor has in hand

VARIABLES
    adapter,    \* one call of an agent adapter: its position, files and result
    gin,        \* the arguments of one grader call
    gout        \* what that call returned

VARIABLES
    disk,       \* the tree under .spatialbench: path -> directory, file or link
    staged      \* the workspace calls made on that tree

poolVars == <<workspace, last_call, pool>>
diskVars == <<disk, staged>>
adapterVars == <<adapter>>
graderVars == <<gin, gout>>
moreVars == <<poolVars, adapterVars, graderVars, diskVars>>
vars == <<cacheVars, workerVars, runVars, batchVars, moreVars>>

\* ------------------------------------------- download_single_dataset, per worker
CacheInit ==
    /\ manifest = EmptyManifest
    /\ files = {}
    /\ downloads = [u \in URIs |-> 0]
    /\ writers = [u \in URIs |-> {}]
    /\ fetched = {}
    /\ returned = [u \in URIs |-> <<>>]

WorkersInit ==
    /\ wpc = [w \in Workers |-> "idle"]
    /\ wuri = [w \in Workers |-> None]
    /\ wman = [w \in Workers |-> EmptyManifest]
    /\ calls = [w \in Workers |-> 0]

\* Lines 40-48: read the manifest; a hit returns the cached file at once.
CallHit(w, uri) ==
    /\ wpc[w] = "idle"
    /\ calls[w] < MaxCalls
    /\ CacheHit(manifest, files, uri)
    /\ calls' = [calls EXCEPT ![w] = @ + 1]
    /\ fetched' = fetched \cup {uri}
    /\ returned' = [returned EXCEPT ![uri] = Append(@, manifest[uri])]
    /\ UNCHANGED <<moreVars, manifest, files, downloads, writers, wpc, wuri, wman, runVars, batchVars>>

\* Lines 40-54: read the manifest, miss, go on to the retrieval.
CallMiss(w, uri) ==
    /\ wpc[w] = "idle"
    /\ calls[w] < MaxCalls
    /\ ~CacheHit(manifest, files, uri)
    /\ calls' = [calls EXCEPT ![w] = @ + 1]
    /\ wpc' = [wpc EXCEPT ![w] = "downloading"]
    /\ wuri' = [wuri EXCEPT ![w] = uri]
    /\ wman' = [wman EXCEPT ![w] = manifest]
    /\ UNCHANGED <<moreVars, cacheVars, runVars, batchVars>>

\* Lines 55-59: latch cp succeeded and wrote cache_dir / cache_key.
DownloadOk(w) ==
    /\ wpc[w] = "downloading"
    /\ files' = files \cup {get_cache_key(wuri[w])}
    /\ downloads' = [downloads EXCEPT ![wuri[w]] = @ + 1]
    /\ writers' = [writers EXCEPT ![wuri[w]] = @ \cup {w}]
    /\ wpc' = [wpc EXCEPT ![w] = "saving"]
    /\ UNCHANGED <<moreVars, manifest, fetched, returned, wuri, wman, calls, runVars, batchVars>>

\* Lines 55-59: latch cp failed; check=True raises CalledProcessError.
DownloadFail(w) ==
    /\ wpc[w] = "downloading"
    /\ wpc' = [wpc EXCEPT ![w] = "idle"]
    /\ wuri' = [wuri EXCEPT ![w] = None]
    /\ UNCHANGED <<moreVars, cacheVars, wman, calls, runVars, batchVars>>

\* Lines 63-66: manifest[uri] = cache_key on the local copy, save, return.
SaveManifest(w) ==
    /\ wpc[w] = "saving"
    /\ manifest' = ManifestPut(wman[w], wuri[w])
    /\ fetched' = fetched \cup {wuri[w]}
    /\ returned' = [returned EXCEPT ![wuri[w]] = Append(@, get_cache_key(wuri[w]))]
    /\ wpc' = [wpc EXCEPT ![w] = "idle"]
    /\ wuri' = [wuri EXCEPT ![w] = None]
    /\ UNCHANGED <<moreVars, files, downloads, writers, wman, calls, runVars, batchVars>>

CacheNext ==
    \E w \in Workers :
        \/ \E uri \in URIs : CallHit(w, uri)
        \/ \E uri \in URIs : CallMiss(w, uri)
        \/ DownloadOk(w)
        \/ DownloadFail(w)
        \/ SaveManifest(w)

\* Calls made one after the other, as the loops of download_data (line 73)
\* and batch_download_datasets (line 97) make them: a call starts only when
\* no other call is in progress.
NoCallInProgress == \A w \in Workers : wpc[w] = "idle"

SeqCallHit(w, uri) == NoCallInProgress /\ CallHit(w, uri)

SeqCallMiss(w, uri) == NoCallInProgress /\ CallMiss(w, uri)

SeqNext ==
    \E w \in Workers :
        \/ \E uri \in URIs : SeqCallHit(w, uri)
        \/ \E uri \in URIs : SeqCallMiss(w, uri)
        \/ DownloadOk(w)
        \/ DownloadFail(w)
        \/ SaveManifest(w)


\* ------------------------------------------------------------ EvalRunner.run
\* Longest data_node list of a task spec.
MaxNodes == 2

\* GRADER_REGISTRY
GRADER_REGISTRY ==
    {"numeric_tolerance", "label_set_jaccard", "distribution_comparison",
     "marker_gene_precision_recall", "marker_gene_separation",
     "spatial_adjacency", "multiple_choice"}

\* Registered graders that define evaluate_answer themselves; the others
\* inherit BinaryGrader.evaluate_answer, which raises NotImplementedError.
DefinesEvaluateAnswer ==
    {"numeric_tolerance", "distribution_comparison", "spatial_adjacency",
     "multiple_choice"}

\* The "grader" of a task spec: absent (None or {}), a registered type, or a
\* type string the registry does not hold.
GraderConfigs == {"none", "bogus_type"} \cup GRADER_REGISTRY

\* Parsed JSON values an agent can hand over:
\*   good      an object without an "answer" field that meets the pass
\*             condition of the configured field-based grader
\*   bad       such an object that does not meet it
\*   adj_null  a spatial-adjacency object whose four metrics are within the
\*             thresholds and whose adjacency_pass is null
\*   mc_good   {"answer": <the correct choice>}
\*   str       a bare string
\*   number    a bare number
\*   None      null
Objects == {"good", "bad", "adj_null", "mc_good"}
JsonVals == Objects \cup {"str", "number", None}

\* "answer" in result, for a dict result
HasAnswerKey(v) == v = "mc_good"

\* result["answer"] of such a dict
AnswerField(v) == "str"

\* The metadata dict of an adapter, as the set of keys it holds.
CostKeys == {"total_cost", "n_steps", "n_messages"}
MetaVals == {{}, CostKeys, CostKeys \cup {"error_details"}}

\* What an agent function can return: a {"answer": .., ["metadata": ..]}
\* wrapper, or any other value.
Wrapper(a, hasmd, md) == [wrapper |-> TRUE, answer |-> a, has_metadata |-> hasmd, metadata |-> md]
Direct(v) == [wrapper |-> FALSE, answer |-> v, has_metadata |-> FALSE, metadata |-> {}]

\* The state of eval_answer.json in the workspace: absent, present but not
\* JSON, or present holding a JSON value.
FileStates == {"absent", "malformed"} \cup JsonVals

\* What the answer file parses to, for a file holding JSON.
FileValue(f) == f

\* run_minisweagent_task after agent.run: the answer file decides the
\* returned {"answer": .., "metadata": ..}.
MiniSweAgentResult(f) ==
    IF f \in {"absent", "malformed"}
    THEN Wrapper(None, TRUE, CostKeys \cup {"error_details"})
    ELSE Wrapper(FileValue(f), TRUE, CostKeys)

\* The behaviours of one agent call: the file it leaves and what it returns
\* or that it raises.
AgentBehaviours(fn) ==
    IF fn = "minisweagent"
    THEN [raises : {TRUE}, file : FileStates, result : {Direct(None)}]
         \cup {[raises |-> FALSE, file |-> f, result |-> MiniSweAgentResult(f)] : f \in FileStates}
    ELSE [raises : {TRUE}, file : FileStates, result : {Direct(None)}]
         \cup [raises : {FALSE}, file : FileStates,
               result : {Direct(v) : v \in JsonVals}
                        \cup {Wrapper(a, FALSE, {}) : a \in JsonVals}
                        \cup {Wrapper(a, TRUE, md) : a \in JsonVals, md \in MetaVals}]

\* Lines 80-84: the answer run() takes from the agent's return value.
AnswerOfResult(r) ==
    IF r.wrapper THEN r.answer
    ELSE IF r.answer \in Objects /\ HasAnswerKey(r.answer) THEN AnswerField(r.answer)
    ELSE r.answer

\* Lines 80-84: the metadata run() takes from the agent's return value.
MetadataOfResult(r) ==
    IF r.wrapper /\ r.has_metadata THEN r.metadata ELSE {}

\* grader.evaluate_answer(agent_answer, grader_config): the passed field of
\* the GraderResult it returns, or "raise".
evaluate_answer(grader_type, a) ==
    CASE grader_type \notin DefinesEvaluateAnswer -> "raise"
      [] a = "number" -> "raise"
      [] a = "str" -> "False"
      [] grader_type = "multiple_choice" -> IF a = "mc_good" THEN "True" ELSE "False"
      [] grader_type = "spatial_adjacency" /\ a = "adj_null" -> None
      [] a = "good" -> "True"
      [] OTHER -> "False"

NoGraderResult == [exists |-> FALSE, passed |-> None, reasoning |-> None]

\* Lines 112-122: the GraderResult of the try block.
GradeResult(grader_type, a) ==
    IF evaluate_answer(grader_type, a) = "raise"
    THEN [exists |-> TRUE, passed |-> "False", reasoning |-> "exception_text"]
    ELSE [exists |-> TRUE, passed |-> evaluate_answer(grader_type, a), reasoning |-> "verdict"]

NoRecord == [exists |-> FALSE, agent_answer |-> None, grader_result |-> NoGraderResult,
             passed |-> None, has_metadata |-> FALSE, metadata |-> {}]

\* Lines 149-159
ResultDict(ans, gr, md) ==
    [exists |-> TRUE, agent_answer |-> ans, grader_result |-> gr,
     passed |-> IF gr.exists THEN gr.passed ELSE None,
     has_metadata |-> md # {}, metadata |-> md]

NoLinks == [n \in {} |-> None]
NoWorkDir == [exists |-> FALSE, links |-> NoLinks, answer_file |-> "absent"]

\* Seq(URIs) up to MaxNodes long
NodeLists == UNION {[1..n -> URIs] : n \in 0..MaxNodes}
TestCases == [data_node : NodeLists, grader : GraderConfigs]

NoHist == [provisioned |-> FALSE, agent_invoked |-> FALSE, agent_raised |-> FALSE,
           grader_called |-> FALSE, grader_raised |-> FALSE, cleanup_called |-> FALSE,
           failed_uri |-> None, had_entry |-> FALSE, raw_result |-> Direct(None)]

RunInit ==
    /\ pc = "start"
    /\ test_case \in TestCases
    /\ keep_workspace \in BOOLEAN
    /\ agent_function \in {"none", "custom", "minisweagent"}
    /\ node = 1
    /\ work_dir = NoWorkDir
    /\ agent_answer = None
    /\ agent_metadata = {}
    /\ grader_result = NoGraderResult
    /\ result_dict = NoRecord
    /\ hist = NoHist

\* Line 30: setup_workspace deletes what is there and makes the directory.
Setup ==
    /\ pc = "start"
    /\ work_dir' = [exists |-> TRUE, links |-> NoLinks, answer_file |-> "absent"]
    /\ hist' = [hist EXCEPT !.provisioned = TRUE]
    /\ pc' = "staging"
    /\ node' = 1
    /\ UNCHANGED <<moreVars, cacheVars, workerVars, batchVars, test_case, keep_workspace, agent_function,
                   agent_answer, agent_metadata, grader_result, result_dict>>

\* Lines 77-80 of download_data: replace the link at the basename.
LinkInto(links, uri, key) ==
    [n \in (DOMAIN links) \cup {PathName(uri)} |-> IF n = PathName(uri) THEN key ELSE links[n]]

\* download_data, one node, cache hit (utils.py lines 43-48, 75-88).
StageHit ==
    /\ pc = "staging"
    /\ node <= Len(test_case.data_node)
    /\ LET uri == test_case.data_node[node] IN
        /\ CacheHit(manifest, files, uri)
        /\ work_dir' = [work_dir EXCEPT !.links = LinkInto(@, uri, manifest[uri])]
        /\ fetched' = fetched \cup {uri}
        /\ returned' = [returned EXCEPT ![uri] = Append(@, manifest[uri])]
    /\ node' = node + 1
    /\ UNCHANGED <<moreVars, manifest, files, downloads, writers, workerVars, batchVars, pc, test_case,
                   keep_workspace, agent_function, agent_answer, agent_metadata,
                   grader_result, result_dict, hist>>

\* download_data, one node, miss and successful retrieval (lines 50-66, 75-88).
StageDownload ==
    /\ pc = "staging"
    /\ node <= Len(test_case.data_node)
    /\ LET uri == test_case.data_node[node] IN
        /\ ~CacheHit(manifest, files, uri)
        /\ files' = files \cup {get_cache_key(uri)}
        /\ downloads' = [downloads EXCEPT ![uri] = @ + 1]
        /\ writers' = [writers EXCEPT ![uri] = @ \cup {"main"}]
        /\ manifest' = ManifestPut(manifest, uri)
        /\ fetched' = fetched \cup {uri}
        /\ returned' = [returned EXCEPT ![uri] = Append(@, get_cache_key(uri))]
        /\ work_dir' = [work_dir EXCEPT !.links = LinkInto(@, uri, get_cache_key(uri))]
    /\ node' = node + 1
    /\ UNCHANGED <<moreVars, workerVars, batchVars, pc, test_case, keep_workspace, agent_function,
                   agent_answer, agent_metadata, grader_result, result_dict, hist>>

\* StageFail with the manifest entry recorded before the retrieval ran.
StageFail_EntryFirst ==
    /\ pc = "staging"
    /\ node <= Len(test_case.data_node)
    /\ LET uri == test_case.data_node[node] IN
        /\ ~CacheHit(manifest, files, uri)
        /\ manifest' = ManifestPut(manifest, uri)
        /\ hist' = [hist EXCEPT !.failed_uri = uri, !.had_entry = uri \in DOMAIN manifest]
    /\ pc' = "raised"
    /\ UNCHANGED <<moreVars, files, downloads, writers, fetched, returned, workerVars, batchVars, test_case,
                   keep_workspace, agent_function, node, work_dir, agent_answer,
                   agent_metadata, grader_result, result_dict>>

\* download_data, one node, miss and failed retrieval: CalledProcessError
\* leaves download_single_dataset, download_data and run().
StageFail ==
    /\ pc = "staging"
    /\ node <= Len(test_case.data_node)
    /\ LET uri == test_case.data_node[node] IN
        /\ ~CacheHit(manifest, files, uri)
        /\ hist' = [hist EXCEPT !.failed_uri = uri, !.had_entry = uri \in DOMAIN manifest]
    /\ pc' = "raised"
    /\ UNCHANGED <<moreVars, manifest, files, downloads, writers, fetched, returned, workerVars, batchVars, test_case,
                   keep_workspace, agent_function, node, work_dir, agent_answer,
                   agent_metadata, grader_result, result_dict>>

\* Lines 39-62: every node is staged; compose the prompt.
StagingDone ==
    /\ pc = "staging"
    /\ node > Len(test_case.data_node)
    /\ pc' = "agent"
    /\ UNCHANGED <<moreVars, cacheVars, workerVars, batchVars, test_case, keep_workspace, agent_function,
                   node, work_dir, agent_answer, agent_metadata, grader_result,
                   result_dict, hist>>

\* Lines 64-75: no agent function, only the usage text is printed.
NoAgent ==
    /\ pc = "agent"
    /\ agent_function = "none"
    /\ pc' = "collect"
    /\ UNCHANGED <<moreVars, cacheVars, workerVars, batchVars, test_case, keep_workspace, agent_function,
                   node, work_dir, agent_answer, agent_metadata, grader_result,
                   result_dict, hist>>

\* Lines 77-86: the agent function returns.
AgentReturns ==
    /\ pc = "agent"
    /\ agent_function # "none"
    /\ \E b \in AgentBehaviours(agent_function) :
        /\ ~b.raises
        /\ work_dir' = [work_dir EXCEPT !.answer_file = b.file]
        /\ agent_answer' = AnswerOfResult(b.result)
        /\ agent_metadata' = MetadataOfResult(b.result)
        /\ hist' = [hist EXCEPT !.agent_invoked = TRUE, !.raw_result = b.result]
    /\ pc' = "collect"
    /\ UNCHANGED <<moreVars, cacheVars, workerVars, batchVars, test_case, keep_workspace, agent_function,
                   node, grader_result, result_dict>>

\* AgentRaises without the except clause: the exception leaves run().
AgentRaises_Propagates ==
    /\ pc = "agent"
    /\ agent_function # "none"
    /\ \E b \in AgentBehaviours(agent_function) :
        /\ b.raises
        /\ work_dir' = [work_dir EXCEPT !.answer_file = b.file]
    /\ hist' = [hist EXCEPT !.agent_invoked = TRUE, !.agent_raised = TRUE]
    /\ pc' = "raised"
    /\ UNCHANGED <<moreVars, cacheVars, workerVars, batchVars, test_case, keep_workspace, agent_function,
                   node, agent_answer, agent_metadata, grader_result, result_dict>>

\* Lines 77-78, 87-90: the agent function raises; the exception is caught.
AgentRaises ==
    /\ pc = "agent"
    /\ agent_function # "none"
    /\ \E b \in AgentBehaviours(agent_function) :
        /\ b.raises
        /\ work_dir' = [work_dir EXCEPT !.answer_file = b.file]
    /\ hist' = [hist EXCEPT !.agent_invoked = TRUE, !.agent_raised = TRUE]
    /\ pc' = "collect"
    /\ UNCHANGED <<moreVars, cacheVars, workerVars, batchVars, test_case, keep_workspace, agent_function,
                   node, agent_answer, agent_metadata, grader_result, result_dict>>

\* Lines 92-98 with the answer file read first, whatever the agent returned.
CollectedAnswer_FileFirst(ans, f) ==
    IF f \notin {"absent", "malformed"} THEN FileValue(f) ELSE ans

\* Lines 92-98: the answer after the fallback to eval_answer.json.
CollectedAnswer(ans, f) ==
    IF ans = None /\ f # "absent"
    THEN IF f = "malformed" THEN None ELSE FileValue(f)
    ELSE ans

\* Lines 92-98
CollectAnswer ==
    /\ pc = "collect"
    /\ agent_answer' = CollectedAnswer(agent_answer, work_dir.answer_file)
    /\ pc' = "grade"
    /\ UNCHANGED <<moreVars, cacheVars, workerVars, batchVars, test_case, keep_workspace, agent_function,
                   node, work_dir, agent_metadata, grader_result, result_dict, hist>>

\* Line 101: if self.test_case.grader and agent_answer is not None
GradeGuard(tc, ans) == tc.grader # "none" /\ ans # None

\* Lines 100-101: the guard is false, grading is skipped.
GradeSkip ==
    /\ pc = "grade"
    /\ ~GradeGuard(test_case, agent_answer)
    /\ pc' = "cleanup"
    /\ UNCHANGED <<moreVars, cacheVars, workerVars, batchVars, test_case, keep_workspace, agent_function,
                   node, work_dir, agent_answer, agent_metadata, grader_result,
                   result_dict, hist>>

\* Lines 109, 136-137: the type is not registered, a warning is printed.
GradeUnknownType ==
    /\ pc = "grade"
    /\ GradeGuard(test_case, agent_answer)
    /\ test_case.grader \notin GRADER_REGISTRY
    /\ pc' = "cleanup"
    /\ UNCHANGED <<moreVars, cacheVars, workerVars, batchVars, test_case, keep_workspace, agent_function,
                   node, work_dir, agent_answer, agent_metadata, grader_result,
                   result_dict, hist>>

\* Grade without the except clause: a grader exception leaves run().
Grade_Uncaught ==
    /\ pc = "grade"
    /\ GradeGuard(test_case, agent_answer)
    /\ test_case.grader \in GRADER_REGISTRY
    /\ grader_result' = IF evaluate_answer(test_case.grader, agent_answer) = "raise"
                        THEN grader_result
                        ELSE GradeResult(test_case.grader, agent_answer)
    /\ hist' = [hist EXCEPT !.grader_called = TRUE,
                            !.grader_raised = (evaluate_answer(test_case.grader, agent_answer) = "raise")]
    /\ pc' = IF evaluate_answer(test_case.grader, agent_answer) = "raise" THEN "raised" ELSE "cleanup"
    /\ UNCHANGED <<moreVars, cacheVars, workerVars, batchVars, test_case, keep_workspace, agent_function,
                   node, work_dir, agent_answer, agent_metadata, result_dict>>

\* Lines 109-135: the registered grader scores the answer, or raises and
\* the handler builds the failing result.
Grade ==
    /\ pc = "grade"
    /\ GradeGuard(test_case, agent_answer)
    /\ test_case.grader \in GRADER_REGISTRY
    /\ grader_result' = GradeResult(test_case.grader, agent_answer)
    /\ hist' = [hist EXCEPT !.grader_called = TRUE,
                            !.grader_raised = (evaluate_answer(test_case.grader, agent_answer) = "raise")]
    /\ pc' = "cleanup"
    /\ UNCHANGED <<moreVars, cacheVars, workerVars, batchVars, test_case, keep_workspace, agent_function,
                   node, work_dir, agent_answer, agent_metadata, result_dict>>

\* cleanup_workspace(work_dir, keep)
cleanup_workspace(wd, keep) == IF keep THEN wd ELSE NoWorkDir

\* Lines 139-147
Cleanup ==
    /\ pc = "cleanup"
    /\ work_dir' = cleanup_workspace(work_dir, keep_workspace)
    /\ hist' = [hist EXCEPT !.cleanup_called = TRUE]
    /\ pc' = "return"
    /\ UNCHANGED <<moreVars, cacheVars, workerVars, batchVars, test_case, keep_workspace, agent_function,
                   node, agent_answer, agent_metadata, grader_result, result_dict>>

\* Lines 149-159
Return ==
    /\ pc = "return"
    /\ result_dict' = ResultDict(agent_answer, grader_result, agent_metadata)
    /\ pc' = "returned"
    /\ UNCHANGED <<moreVars, cacheVars, workerVars, batchVars, test_case, keep_workspace, agent_function,
                   node, work_dir, agent_answer, agent_metadata, grader_result, hist>>

RunNext ==
    \/ Setup
    \/ StageHit
    \/ StageDownload
    \/ StageFail
    \/ StagingDone
    \/ NoAgent
    \/ AgentReturns
    \/ AgentRaises
    \/ CollectAnswer
    \/ GradeSkip
    \/ GradeUnknownType
    \/ Grade
    \/ Cleanup
    \/ Return

RunIdle ==
    /\ pc = "idle"
    /\ test_case = [data_node |-> <<>>, grader |-> "none"]
    /\ keep_workspace = FALSE
    /\ agent_function = "none"
    /\ node = 1
    /\ work_dir = NoWorkDir
    /\ agent_answer = None
    /\ agent_metadata = {}
    /\ grader_result = NoGraderResult
    /\ result_dict = NoRecord
    /\ hist = NoHist



\* -------------------------------------------------------- the batch command
\* Most task spec files in the directory of one batch.
MaxEvals == 2

\* The --parallel option: one worker (the sequential loop) or more.
ParallelChoices == {1, 2}

\* The task spec files a batch directory is drawn from: whether json.loads
\* and TestCase(**eval_data) accept the file, and the test case if so.
EvalFiles == {"broken.json", "mc.json", "num.json", "bogus.json", "plain.json"}
Parseable(f) == f # "broken.json"
TestCaseOf(f) ==
    CASE f = "mc.json" -> [data_node |-> <<>>, grader |-> "multiple_choice"]
      [] f = "num.json" -> [data_node |-> <<"u1">>, grader |-> "numeric_tolerance"]
      [] f = "bogus.json" -> [data_node |-> <<"u2">>, grader |-> "bogus_type"]
      [] OTHER -> [data_node |-> <<"u1", "u3">>, grader |-> "none"]

Range(seq) == {seq[i] : i \in DOMAIN seq}

\* Directory listings: up to MaxEvals distinct files in any order.
Listings ==
    {l \in UNION {[1..n -> EvalFiles] : n \in 0..MaxEvals} :
        \A i, j \in DOMAIN l : i # j => l[i] # l[j]}

\* Lines 122-133 taking only the first reference of each file.
CollectUris_FirstNodeOnly(l) ==
    UNION {IF TestCaseOf(l[i]).data_node = <<>> THEN {}
           ELSE {TestCaseOf(l[i]).data_node[1]} : i \in {j \in DOMAIN l : Parseable(l[j])}}

\* Lines 122-133: the URIs of every file that parses.
CollectUris(l) ==
    UNION {Range(TestCaseOf(l[i]).data_node) : i \in {j \in DOMAIN l : Parseable(l[j])}}

\* Lines 39-48, 170-176, 214-224: the record of an evaluation that raised.
ErrorRecord(f) == [eval |-> f, passed |-> "False", has_error |-> TRUE, metadata |-> {}]

\* Lines 26-38, 197-209: the record of an evaluation whose run() returned.
OutputRecord(f, r) ==
    [eval |-> f, passed |-> r.passed, has_error |-> FALSE,
     metadata |-> IF r.has_metadata THEN r.metadata ELSE {}]

RECURSIVE CountIf(_, _)
CountIf(seq, v) ==
    IF seq = <<>> THEN 0
    ELSE (IF Head(seq).passed = v THEN 1 ELSE 0) + CountIf(Tail(seq), v)

\* Line 230: sum(1 for r in results if r.get("passed") is True)
CountPassed(rs) == CountIf(rs, "True")

\* Line 231 with "not r.get('passed')" in place of "is False".
CountFailed_Falsy(rs) == Len(rs) - CountIf(rs, "True")

\* Line 231: sum(1 for r in results if r.get("passed") is False)
CountFailed(rs) == CountIf(rs, "False")

\* Line 232: sum(1 for r in results if "error" in r)
CountErrors(rs) == Cardinality({i \in DOMAIN rs : rs[i].has_error})

NoSummary == [exists |-> FALSE, total_evals |-> 0, passed |-> 0, failed |-> 0, errors |-> 0]

\* Lines 266-277
Summary(rs) ==
    [exists |-> TRUE, total_evals |-> Len(rs), passed |-> CountPassed(rs),
     failed |-> CountFailed(rs), errors |-> CountErrors(rs)]

\* A cache left by earlier runs: the URIs in s are cached.
WarmCache(s) ==
    /\ manifest = [u \in s |-> get_cache_key(u)]
    /\ files = {get_cache_key(u) : u \in s}
    /\ downloads = [u \in URIs |-> 0]
    /\ writers = [u \in URIs |-> {}]
    /\ fetched = {}
    /\ returned = [u \in URIs |-> <<>>]

BatchIdle ==
    /\ bpc = "idle"
    /\ eval_files = <<>>
    /\ options = [agent |-> "none", parallel |-> 1, keep_workspace |-> FALSE]
    /\ all_uris = {}
    /\ pending = {}
    /\ current = 0
    /\ results = <<>>
    /\ summary = NoSummary

BatchInit ==
    /\ bpc = "start"
    /\ eval_files \in Listings
    /\ options \in [agent : {"none", "minisweagent"}, parallel : ParallelChoices,
                    keep_workspace : BOOLEAN]
    /\ all_uris = {}
    /\ pending = {}
    /\ current = 0
    /\ results = <<>>
    /\ summary = NoSummary

\* Lines 110-112: no evaluation files, the command returns.
BatchNoFiles ==
    /\ bpc = "start"
    /\ eval_files = <<>>
    /\ bpc' = "done"
    /\ UNCHANGED <<moreVars, cacheVars, workerVars, runVars, eval_files, options, all_uris,
                   pending, current, results, summary>>

\* Lines 114-116: no agent selected, the command returns.
BatchNoAgent ==
    /\ bpc = "start"
    /\ eval_files # <<>>
    /\ options.agent = "none"
    /\ bpc' = "done"
    /\ UNCHANGED <<moreVars, cacheVars, workerVars, runVars, eval_files, options, all_uris,
                   pending, current, results, summary>>

\* Lines 122-135: collect the URIs of the files that parse.
BatchCollect ==
    /\ bpc = "start"
    /\ eval_files # <<>>
    /\ options.agent # "none"
    /\ all_uris' = CollectUris(eval_files)
    /\ pending' = DOMAIN eval_files
    /\ bpc' = "prefetch"
    /\ UNCHANGED <<moreVars, cacheVars, workerVars, runVars, eval_files, options, current,
                   results, summary>>

\* batch_download_datasets, one URI, cache hit.
PrefetchHit ==
    /\ bpc = "prefetch"
    /\ \E uri \in all_uris :
        /\ CacheHit(manifest, files, uri)
        /\ fetched' = fetched \cup {uri}
        /\ returned' = [returned EXCEPT ![uri] = Append(@, manifest[uri])]
        /\ all_uris' = all_uris \ {uri}
    /\ UNCHANGED <<moreVars, manifest, files, downloads, writers, workerVars, runVars, bpc,
                   eval_files, options, pending, current, results, summary>>

\* batch_download_datasets, one URI, miss and successful retrieval.
PrefetchDownload ==
    /\ bpc = "prefetch"
    /\ \E uri \in all_uris :
        /\ ~CacheHit(manifest, files, uri)
        /\ files' = files \cup {get_cache_key(uri)}
        /\ downloads' = [downloads EXCEPT ![uri] = @ + 1]
        /\ writers' = [writers EXCEPT ![uri] = @ \cup {"main"}]
        /\ manifest' = ManifestPut(manifest, uri)
        /\ fetched' = fetched \cup {uri}
        /\ returned' = [returned EXCEPT ![uri] = Append(@, get_cache_key(uri))]
        /\ all_uris' = all_uris \ {uri}
    /\ UNCHANGED <<moreVars, workerVars, runVars, bpc, eval_files, options, pending, current,
                   results, summary>>

\* batch_download_datasets, one URI, miss and failed retrieval: the
\* CalledProcessError is caught nowhere in batch() and ends the command.
PrefetchFail ==
    /\ bpc = "prefetch"
    /\ \E uri \in all_uris : ~CacheHit(manifest, files, uri)
    /\ bpc' = "aborted"
    /\ UNCHANGED <<moreVars, cacheVars, workerVars, runVars, eval_files, options, all_uris,
                   pending, current, results, summary>>

\* Lines 137-145: every URI is cached; go on to the evaluations.
PrefetchDone ==
    /\ bpc = "prefetch"
    /\ all_uris = {}
    /\ bpc' = "evals"
    /\ UNCHANGED <<moreVars, cacheVars, workerVars, runVars, eval_files, options, all_uris,
                   pending, current, results, summary>>

\* The evaluation taken next: in list order when sequential (line 179), in
\* any order of completion with parallel workers (line 159).
MayTake(i) ==
    /\ i \in pending
    /\ options.parallel > 1 \/ \A j \in pending : i <= j

\* EvalRunner(eval_file) raises on a file that does not parse; the except
\* clause (lines 39-48, 214-224) appends the error record.
EvalMalformed ==
    /\ bpc = "evals"
    /\ current = 0
    /\ \E i \in pending :
        /\ MayTake(i)
        /\ ~Parseable(eval_files[i])
        /\ results' = Append(results, ErrorRecord(eval_files[i]))
        /\ pending' = pending \ {i}
    /\ UNCHANGED <<moreVars, cacheVars, workerVars, runVars, bpc, eval_files, options,
                   all_uris, current, summary>>

\* Lines 22-23, 186-194: the runner is built and run() is entered.
EvalStart ==
    /\ bpc = "evals"
    /\ current = 0
    /\ \E i \in pending :
        /\ MayTake(i)
        /\ Parseable(eval_files[i])
        /\ current' = i
        /\ test_case' = TestCaseOf(eval_files[i])
    /\ pc' = "start"
    /\ keep_workspace' = options.keep_workspace
    /\ agent_function' = options.agent
    /\ UNCHANGED <<moreVars, cacheVars, workerVars, node, work_dir, agent_answer,
                   agent_metadata, grader_result, result_dict, hist, bpc,
                   eval_files, options, all_uris, pending, results, summary>>

\* The runner and its locals are gone once the evaluation is recorded.
ResetRun ==
    /\ pc' = "idle"
    /\ test_case' = [data_node |-> <<>>, grader |-> "none"]
    /\ keep_workspace' = FALSE
    /\ agent_function' = "none"
    /\ node' = 1
    /\ work_dir' = NoWorkDir
    /\ agent_answer' = None
    /\ agent_metadata' = {}
    /\ grader_result' = NoGraderResult
    /\ result_dict' = NoRecord
    /\ hist' = NoHist

\* Lines 24-38, 195-209: run() returned; its record is appended.
EvalReturned ==
    /\ bpc = "evals"
    /\ current # 0
    /\ pc = "returned"
    /\ results' = Append(results, OutputRecord(eval_files[current], result_dict))
    /\ pending' = pending \ {current}
    /\ current' = 0
    /\ ResetRun
    /\ UNCHANGED <<moreVars, cacheVars, workerVars, bpc, eval_files, options, all_uris, summary>>

\* Lines 170-176: future.result() raises because the worker process died
\* during the evaluation.
EvalWorkerDied ==
    /\ bpc = "evals"
    /\ options.parallel > 1
    /\ current # 0
    /\ pc \notin {"returned", "raised"}
    /\ results' = Append(results, ErrorRecord(eval_files[current]))
    /\ pending' = pending \ {current}
    /\ current' = 0
    /\ ResetRun
    /\ UNCHANGED <<moreVars, cacheVars, workerVars, bpc, eval_files, options, all_uris, summary>>

\* Lines 226-293: every evaluation is accounted for; compute the summary.
Summarize ==
    /\ bpc = "evals"
    /\ pending = {}
    /\ current = 0
    /\ summary' = Summary(results)
    /\ bpc' = "done"
    /\ UNCHANGED <<moreVars, cacheVars, workerVars, runVars, eval_files, options, all_uris,
                   pending, current, results>>

\* The steps of run() inside a batch. The prefetch has cached every URI of
\* every file that parses, so staging only ever hits (BatchStagingHits).
BatchRunNext ==
    \/ Setup
    \/ StageHit
    \/ StagingDone
    \/ AgentReturns
    \/ AgentRaises
    \/ CollectAnswer
    \/ GradeSkip
    \/ GradeUnknownType
    \/ Grade
    \/ Cleanup
    \/ Return

BatchNext ==
    \/ BatchNoFiles
    \/ BatchNoAgent
    \/ BatchCollect
    \/ PrefetchHit
    \/ PrefetchDownload
    \/ PrefetchFail
    \/ PrefetchDone
    \/ EvalMalformed
    \/ EvalStart
    \/ EvalReturned
    \/ EvalWorkerDied
    \/ Summarize
    \/ BatchRunNext

\* ------------------------------------------------- workspace directories
\* Evaluations one batch hands to its pool.
MaxPoolEvals == 3

\* run_id values (None: the run command, which passes no run id) and the
\* "id" fields of task specs.
RunIds == {"r1", None}
EvalIds == {"e1", "e2"}

\* Lines 108-112: the path of the workspace of (run_id, eval_id).
WorkDirOf(eval_id, run_id) ==
    IF run_id # None THEN <<"workspace", run_id, eval_id>> ELSE <<"workspace", eval_id>>

WorkDirs == {WorkDirOf(e, r) : e \in EvalIds, r \in RunIds}

\* What a workspace directory can hold: a dataset link, the answer file,
\* a directory the agent made.
Items == {"link", "eval_answer.json", "subdir"}

NoDir == [exists |-> FALSE, contents |-> {}, owner |-> 0]

\* shutil.rmtree(work_dir)
rmtree(fs, path) == [fs EXCEPT ![path] = NoDir]

\* work_dir.mkdir(parents=True), by evaluation who
mkdir(fs, path, who) ==
    [fs EXCEPT ![path] = [exists |-> TRUE, contents |-> {}, owner |-> who]]

\* Lines 114-117 with mkdir(exist_ok=True) in place of the rmtree.
Provisioned_KeepContents(fs, path, who) ==
    IF fs[path].exists THEN [fs EXCEPT ![path].owner = who] ELSE mkdir(fs, path, who)

\* Lines 114-117: if work_dir.exists(): rmtree(work_dir); work_dir.mkdir()
Provisioned(fs, path, who) ==
    mkdir(IF fs[path].exists THEN rmtree(fs, path) ELSE fs, path, who)

NoCall == [made |-> FALSE, eval_id |-> None, run_id |-> None, path |-> <<>>]

PoolIdle == pool = [ids |-> <<>>, phase |-> <<>>, keep |-> FALSE, parallel |-> 1, run_id |-> None]

WorkspaceIdle ==
    /\ workspace = [d \in WorkDirs |-> NoDir]
    /\ last_call = NoCall
    /\ PoolIdle


\* setup_workspace(eval_id, run_id), lines 107-119.
setup_workspace(eval_id, run_id) ==
    /\ workspace' = Provisioned(workspace, WorkDirOf(eval_id, run_id), 0)
    /\ last_call' = [made |-> TRUE, eval_id |-> eval_id, run_id |-> run_id,
                     path |-> WorkDirOf(eval_id, run_id)]
    /\ UNCHANGED <<pool, adapterVars, graderVars, diskVars, cacheVars, workerVars, runVars, batchVars>>

\* Staging or the agent puts something into an existing workspace
\* (download_data line 80, the agent's own writes).
Populate(path, item) ==
    /\ workspace[path].exists
    /\ item \notin workspace[path].contents
    /\ workspace' = [workspace EXCEPT ![path].contents = @ \cup {item}]
    /\ last_call' = NoCall
    /\ UNCHANGED <<pool, adapterVars, graderVars, diskVars, cacheVars, workerVars, runVars, batchVars>>

\* cleanup_workspace(work_dir, keep=False), lines 125-126.
Discard(path) ==
    /\ workspace[path].exists
    /\ workspace' = rmtree(workspace, path)
    /\ last_call' = NoCall
    /\ UNCHANGED <<pool, adapterVars, graderVars, diskVars, cacheVars, workerVars, runVars, batchVars>>

ProvisionNext ==
    \/ \E e \in EvalIds, r \in RunIds : setup_workspace(e, r)
    \/ \E d \in WorkDirs, it \in Items : Populate(d, it)
    \/ \E d \in WorkDirs : Discard(d)

\* ------------------------------------------------------------ agent adapters
\* run_minisweagent_task, run_claudecode_task, run_plotsagent_task
AdapterKinds == {"minisweagent", "claudecode", "plotsagent"}

\* Adapters that pass their timeout to the call that waits for the agent:
\* communicate(timeout=eval_timeout) in claudecode.py line 82 and
\* subprocess.run(timeout=eval_timeout) in plotsagent.py line 58.
\* run_minisweagent_task takes a timeout parameter (line 48) and never
\* uses it; agent.run(enhanced_prompt) at line 119 is waited for as is.
EnforcesTimeout == {"claudecode", "plotsagent"}

\* The files an agent can leave: eval_answer.json and, for the plots agent,
\* eval_output.json and workspaces/<id>/eval_answer.json.
AnswerFiles == {"absent", "malformed", "good", None}
OutputFiles == {"absent", "malformed", "no_evals", "good", None}

NoResult == [exists |-> FALSE, answer |-> None, metadata |-> {}]

AdapterReturn(a, md) == [exists |-> TRUE, answer |-> a, metadata |-> md]

AdapterIdle ==
    adapter = [kind |-> "none", pc |-> "idle", hangs |-> FALSE, timed_out |-> FALSE,
               killed |-> FALSE, crashed |-> FALSE, result_event |-> FALSE,
               answer_file |-> "absent", output_file |-> "absent",
               ws_answer |-> "absent", result |-> NoResult]

\* Nothing is on the disk model and no workspace call was made on it.
DiskIdle == disk = <<>> /\ staged = [work_dir |-> <<>>, before |-> <<>>, dotdot |-> FALSE]

GraderIdle == gin = [grader |-> "none"] /\ gout = [done |-> FALSE]

MoreIdle == WorkspaceIdle /\ AdapterIdle /\ GraderIdle /\ DiskIdle

\* A call is made on a fresh workspace; the agent either finishes by itself
\* at some point or never does.
AdapterInit ==
    \E k \in AdapterKinds, h \in BOOLEAN :
        adapter = [kind |-> k, pc |-> "running", hangs |-> h, timed_out |-> FALSE,
                   killed |-> FALSE, crashed |-> FALSE, result_event |-> FALSE,
                   answer_file |-> "absent", output_file |-> "absent",
                   ws_answer |-> "absent", result |-> NoResult]

AdapterUnchanged ==
    UNCHANGED <<poolVars, graderVars, diskVars, cacheVars, workerVars, runVars, batchVars>>

\* The agent writes eval_answer.json into work_dir.
AgentWritesAnswer(v) ==
    /\ adapter.pc = "running"
    /\ adapter.answer_file = "absent"
    /\ adapter' = [adapter EXCEPT !.answer_file = v]
    /\ AdapterUnchanged

\* The plots eval server writes eval_output.json (plotsagent.py line 30).
AgentWritesOutput(v) ==
    /\ adapter.pc = "running"
    /\ adapter.kind = "plotsagent"
    /\ adapter.output_file = "absent"
    /\ adapter' = [adapter EXCEPT !.output_file = v]
    /\ AdapterUnchanged

\* The plots eval server writes workspaces/<id>/eval_answer.json (line 109).
AgentWritesWsAnswer(v) ==
    /\ adapter.pc = "running"
    /\ adapter.kind = "plotsagent"
    /\ adapter.ws_answer = "absent"
    /\ adapter' = [adapter EXCEPT !.ws_answer = v]
    /\ AdapterUnchanged

\* The agent ends by itself: agent.run returns or raises Submitted
\* (minisweagent.py 119-122), communicate returns (claudecode.py 80-98, with
\* or without a "result" event on stdout), subprocess.run returns
\* (plotsagent.py 53-59).
AgentFinishes ==
    /\ adapter.pc = "running"
    /\ ~adapter.hangs
    /\ \E ev \in BOOLEAN :
        /\ ev => adapter.kind = "claudecode"
        /\ adapter' = [adapter EXCEPT !.pc = "collect", !.result_event = ev]
    /\ AdapterUnchanged

\* TimeoutExpired: claudecode.py 100-106 kills the process and drains its
\* output; subprocess.run (plotsagent.py 53-63) kills the child before it
\* raises.
TimeoutExpires ==
    /\ adapter.pc = "running"
    /\ adapter.kind \in EnforcesTimeout
    /\ adapter' = [adapter EXCEPT !.pc = "collect", !.timed_out = TRUE, !.killed = TRUE]
    /\ AdapterUnchanged

\* The agent cannot be run: agent.run raises something other than Submitted
\* and it is raised again (minisweagent.py 120-124); Popen fails and the
\* error is logged (claudecode.py 108-110); subprocess.run fails to start
\* the interpreter and nothing catches it (plotsagent.py 51-60).
AgentCrashes ==
    /\ adapter.pc = "running"
    /\ adapter.kind # "minisweagent" =>
          /\ adapter.answer_file = "absent"
          /\ adapter.output_file = "absent"
          /\ adapter.ws_answer = "absent"
    /\ adapter' = [adapter EXCEPT !.crashed = TRUE,
                       !.pc = IF adapter.kind = "claudecode" THEN "collect" ELSE "raised"]
    /\ AdapterUnchanged

\* claudecode.py 120-162: the answer and the metadata keys returned.
ClaudeCodeResult(f, timed_out, ev) ==
    LET err == f \in {"absent", "malformed"}
        md == {"duration_s", "model"}
              \cup (IF ev THEN {"total_cost", "n_turns", "session_id", "usage"} ELSE {})
              \cup (IF timed_out THEN {"timed_out", "eval_timeout_seconds"} ELSE {})
              \cup (IF err THEN {"error_details"} ELSE {})
    IN AdapterReturn(IF err THEN None ELSE FileValue(f), md)

\* plotsagent.py 83-116: the answer found in eval_output.json, else in
\* work_dir/eval_answer.json, else in workspaces/<id>/eval_answer.json.
PlotsAgentAnswer(out, f, ws) ==
    LET a1 == IF out \in {"absent", "malformed", "no_evals"} THEN None ELSE FileValue(out)
        a2 == IF a1 = None /\ f \notin {"absent", "malformed"} THEN FileValue(f) ELSE a1
    IN IF a2 = None /\ ws \notin {"absent", "malformed"} THEN FileValue(ws) ELSE a2

\* plotsagent.py 83-146: the answer and the metadata keys returned.
PlotsAgentResult(out, f, ws, timed_out) ==
    LET ans == PlotsAgentAnswer(out, f, ws)
        err == out = "malformed" \/ ans = None
        md == {"duration_s", "model", "n_steps", "n_messages"}
              \cup (IF timed_out THEN {"timed_out", "eval_timeout_seconds"} ELSE {})
              \cup (IF err THEN {"error_details"} ELSE {})
    IN AdapterReturn(ans, md)

\* What the adapter returns for the files the agent left.
AdapterResult(a) ==
    CASE a.kind = "claudecode" -> ClaudeCodeResult(a.answer_file, a.timed_out, a.result_event)
      [] a.kind = "plotsagent" ->
            PlotsAgentResult(a.output_file, a.answer_file, a.ws_answer, a.timed_out)
      [] OTHER -> AdapterReturn(MiniSweAgentResult(a.answer_file).answer,
                                MiniSweAgentResult(a.answer_file).metadata)

\* The part of each adapter after the agent has ended: minisweagent.py
\* 141-181, claudecode.py 112-162, plotsagent.py 65-146. The plots adapter
\* also copies an answer found elsewhere to work_dir/eval_answer.json
\* (lines 93-95, 113-114).
AdapterCollect ==
    /\ adapter.pc = "collect"
    /\ adapter' = [adapter EXCEPT !.pc = "returned", !.result = AdapterResult(adapter),
                       !.answer_file =
                          IF /\ adapter.kind = "plotsagent"
                             /\ AdapterResult(adapter).answer # None
                             /\ AdapterResult(adapter).answer #
                                   PlotsAgentAnswer("absent", adapter.answer_file, "absent")
                          THEN AdapterResult(adapter).answer ELSE @]
    /\ AdapterUnchanged

AdapterNext ==
    \/ \E v \in AnswerFiles \ {"absent"} : AgentWritesAnswer(v)
    \/ \E v \in OutputFiles \ {"absent"} : AgentWritesOutput(v)
    \/ \E v \in AnswerFiles \ {"absent"} : AgentWritesWsAnswer(v)
    \/ AgentFinishes
    \/ TimeoutExpires
    \/ AgentCrashes
    \/ AdapterCollect

\* ------------------------------------------------------------------ graders
\* Longest cell_types_predicted list of an answer.
MaxLabels == 3

Labels == {"T cell", "B cell", "NK"}

\* scoring.pass_threshold, in percent (default 0.90).
PassThresholds == {50, 90, 100}

\* Lists of labels, duplicates allowed.
LabelLists == UNION {[1..n -> Labels] : n \in 0..MaxLabels}

\* Line 33 with the ground-truth count as the denominator.
JaccardIndex_OverTruth(truth, predicted) ==
    IF Cardinality(truth) > 0
    THEN <<Cardinality(truth \cap predicted), Cardinality(truth)>>
    ELSE <<0, 1>>

\* label_set.py lines 30-33: len(intersection) / len(union) if len(union) > 0
\* else 0.0, as the fraction <<numerator, denominator>>.
JaccardIndex(truth, predicted) ==
    IF Cardinality(truth \cup predicted) > 0
    THEN <<Cardinality(truth \cap predicted), Cardinality(truth \cup predicted)>>
    ELSE <<0, 1>>

\* label_set.py lines 6-8, 20-49 for an answer that was extracted.
LabelSetJaccard(in) ==
    IF ~in.has_field
    THEN [done |-> TRUE, passed |-> FALSE, has_metrics |-> FALSE, jaccard_index |-> <<0, 1>>]
    ELSE LET truth == Range(in.ground_truth_labels)
             predicted == Range(in.cell_types_predicted)
             j == JaccardIndex(truth, predicted)
         IN [done |-> TRUE, passed |-> j[1] * 100 >= in.pass_threshold * j[2],
             has_metrics |-> TRUE, jaccard_index |-> j]

JaccardInit ==
    /\ gin \in [grader : {"label_set_jaccard"}, ground_truth_labels : LabelLists,
                 has_field : BOOLEAN, cell_types_predicted : LabelLists,
                 pass_threshold : PassThresholds]
    /\ gin.has_field \/ gin.cell_types_predicted = <<>>
    /\ gout = [done |-> FALSE]

GraderUnchanged ==
    UNCHANGED <<gin, poolVars, adapterVars, diskVars, cacheVars, workerVars, runVars, batchVars>>

JaccardEvaluate ==
    /\ gin.grader = "label_set_jaccard"
    /\ ~gout.done
    /\ gout' = LabelSetJaccard(gin)
    /\ GraderUnchanged

\* numeric.py: the fields of ground_truth, in the order of the dict.
NumericFields == <<"total_cells", "n_genes">>

ExpectedValues == {0, 1000}
ActualValues == {0, 940, 1000, 1030, 1060}

\* tolerances.get(field): absent, or a dict with or without "type" and
\* "value"; the value is the fraction num/den.
Tol(ht, t, hv, n, d) ==
    [present |-> TRUE, has_type |-> ht, type |-> t, has_value |-> hv, num |-> n, den |-> d]

NoTol == [present |-> FALSE, has_type |-> FALSE, type |-> "absolute", has_value |-> FALSE,
          num |-> 0, den |-> 1]

ToleranceConfigs ==
    {NoTol,
     Tol(FALSE, "absolute", FALSE, 0, 1),
     Tol(TRUE, "absolute", TRUE, 50, 1),
     Tol(TRUE, "absolute", FALSE, 0, 1),
     Tol(FALSE, "absolute", TRUE, 50, 1),
     Tol(TRUE, "relative", TRUE, 1, 20),
     Tol(TRUE, "min", FALSE, 0, 1),
     Tol(TRUE, "max", FALSE, 0, 1),
     Tol(TRUE, "percent", TRUE, 50, 1)}

Abs(x) == IF x < 0 THEN -x ELSE x

Finite(n, d) == [inf |-> FALSE, num |-> n, den |-> d]
Infinite == [inf |-> TRUE, num |-> 0, den |-> 1]

\* Lines 19-21: the tolerance in force for a field.
ToleranceType(tol) == IF tol.present /\ tol.has_type THEN tol.type ELSE "absolute"
ToleranceValue(tol) ==
    IF tol.present /\ tol.has_value THEN <<tol.num, tol.den>> ELSE <<0, 1>>

\* Lines 23-38: within_tolerance and error of one field that is present.
FieldCheck(expected, tol, actual) ==
    LET t == ToleranceType(tol)
        v == ToleranceValue(tol)
        diff == Abs(actual - expected)
    IN CASE t = "absolute" ->
              [within |-> diff * v[2] <= v[1], error |-> Finite(diff, 1)]
         [] t = "relative" ->
              IF expected # 0
              THEN [within |-> diff * v[2] <= v[1] * Abs(expected),
                    error |-> Finite(diff, Abs(expected))]
              ELSE [within |-> FALSE, error |-> Infinite]
         [] t = "min" ->
              [within |-> actual >= expected,
               error |-> Finite(IF actual < expected THEN expected - actual ELSE 0, 1)]
         [] t = "max" ->
              [within |-> actual <= expected,
               error |-> Finite(IF actual > expected THEN actual - expected ELSE 0, 1)]
         [] OTHER -> [within |-> FALSE, error |-> Infinite]

NoMetrics == [f \in {} |-> Infinite]

\* The state of the loop of lines 12-52: all_pass, metrics, failures.
LoopStart == [all_pass |-> TRUE, metrics |-> NoMetrics, failures |-> <<>>]

\* Lines 13-16 without all_pass = False: a missing field is only listed.
LoopMissing_StillPasses(st, field) ==
    [st EXCEPT !.failures = Append(@, field)]

\* Lines 13-16: a field the answer does not have.
LoopMissing(st, field) ==
    [st EXCEPT !.all_pass = FALSE, !.failures = Append(@, field)]

\* Lines 18-52: a field the answer has.
LoopPresent(st, field, expected, tol, actual) ==
    LET c == FieldCheck(expected, tol, actual)
        m == [actual |-> actual, expected |-> expected, error |-> c.error, pass |-> c.within]
    IN [all_pass |-> st.all_pass /\ c.within,
        metrics |-> [f \in DOMAIN st.metrics \cup {field} |->
                        IF f = field THEN m ELSE st.metrics[f]],
        failures |-> IF c.within THEN st.failures ELSE Append(st.failures, field)]

RECURSIVE NumericLoop(_, _, _)
\* Lines 12-52: for field, expected_value in ground_truth.items()
NumericLoop(in, i, st) ==
    IF i > Len(in.fields) THEN st
    ELSE LET field == in.fields[i] IN
         NumericLoop(in, i + 1,
             IF ~in.answer[field].present THEN LoopMissing(st, field)
             ELSE LoopPresent(st, field, in.ground_truth[field], in.tolerances[field],
                              in.answer[field].value))

\* NumericToleranceGrader.evaluate_answer, lines 4-61.
NumericTolerance(in) ==
    LET st == NumericLoop(in, 1, LoopStart)
    IN [done |-> TRUE, passed |-> st.all_pass, metrics |-> st.metrics,
        failures |-> st.failures]

AnswerValues == {[present |-> FALSE, value |-> 0]} \cup [present : {TRUE}, value : ActualValues]

\* The ground truth has no field, the first field or both; what is drawn
\* for a field outside the ground truth is fixed, as the grader never reads it.
NumericInit ==
    /\ \E n \in 0..Len(NumericFields) :
         LET fs == SubSeq(NumericFields, 1, n)
             used == Range(fs)
             all == Range(NumericFields)
         IN \E gt \in [all -> ExpectedValues], tols \in [all -> ToleranceConfigs],
               ans \in [all -> AnswerValues] :
                /\ \A f \in all \ used :
                      gt[f] = 0 /\ tols[f] = NoTol /\ ~ans[f].present
                /\ gin = [grader |-> "numeric_tolerance", fields |-> fs, ground_truth |-> gt,
                          tolerances |-> tols, answer |-> ans]
    /\ gout = [done |-> FALSE]

NumericEvaluate ==
    /\ gin.grader = "numeric_tolerance"
    /\ ~gout.done
    /\ gout' = NumericTolerance(gin)
    /\ GraderUnchanged

\* ------------------------------------------- graders: marker gene precision/recall
\* Longest gene list of a config or an answer.
MaxGenes == 2

\* Gene names as configs and answers spell them.
Genes == {"CD3E", "cd3e", "MS4A1", "Ms4a1", "CD19"}

\* gene.lower()
Lower(g) ==
    CASE g \in {"CD3E", "cd3e"} -> "cd3e"
      [] g \in {"MS4A1", "Ms4a1"} -> "ms4a1"
      [] OTHER -> "cd19"

GeneLists == UNION {[1..n -> Genes] : n \in 0..MaxGenes}

\* pass_thresholds precision_at_k / recall_at_k, in percent (defaults 0.60
\* and 0.50).
RateThresholds == {50, 60, 100}

\* marker_gene.py lines 33-36: canonical_set & predicted_set
TruePositives(canonical, predicted) ==
    {Lower(g) : g \in Range(canonical)} \cap {Lower(g) : g \in Range(predicted)}

\* Line 40 with the number of distinct predicted genes as the denominator.
PrecisionAtK_OverDistinct(canonical, predicted) ==
    IF Len(predicted) > 0
    THEN <<Cardinality(TruePositives(canonical, predicted)),
           Cardinality({Lower(g) : g \in Range(predicted)})>>
    ELSE <<0, 1>>

\* Line 40: len(true_positives) / k if k > 0 else 0.0, as a fraction.
PrecisionAtK(canonical, predicted) ==
    IF Len(predicted) > 0
    THEN <<Cardinality(TruePositives(canonical, predicted)), Len(predicted)>>
    ELSE <<0, 1>>

\* Line 41: len(true_positives) / len(canonical_set) if len(canonical_set) > 0
\* else 0.0, as a fraction.
RecallAtK(canonical, predicted) ==
    IF Cardinality({Lower(g) : g \in Range(canonical)}) > 0
    THEN <<Cardinality(TruePositives(canonical, predicted)),
           Cardinality({Lower(g) : g \in Range(canonical)})>>
    ELSE <<0, 1>>

\* fraction >= threshold, the threshold in percent
AtLeast(fr, pct) == fr[1] * 100 >= pct * fr[2]

\* MarkerGenePrecisionRecallGrader.evaluate, lines 6-10 and 22-90, for an
\* answer that was extracted.
MarkerGenePrecisionRecall(in) ==
    IF ~in.has_field
    THEN [done |-> TRUE, passed |-> FALSE, has_metrics |-> FALSE, k |-> 0,
          precision_at_k |-> <<0, 1>>, recall_at_k |-> <<0, 1>>]
    ELSE LET p == PrecisionAtK(in.canonical_markers, in.top_marker_genes)
             r == RecallAtK(in.canonical_markers, in.top_marker_genes)
         IN [done |-> TRUE,
             passed |-> AtLeast(p, in.precision_threshold) /\ AtLeast(r, in.recall_threshold),
             has_metrics |-> TRUE, k |-> Len(in.top_marker_genes),
             precision_at_k |-> p, recall_at_k |-> r]

PrecisionRecallInit ==
    /\ gin \in [grader : {"marker_gene_precision_recall"}, canonical_markers : GeneLists,
                 has_field : BOOLEAN, top_marker_genes : GeneLists,
                 precision_threshold : RateThresholds, recall_threshold : RateThresholds]
    /\ gin.has_field \/ gin.top_marker_genes = <<>>
    /\ gout = [done |-> FALSE]

PrecisionRecallEvaluate ==
    /\ gin.grader = "marker_gene_precision_recall"
    /\ ~gout.done
    /\ gout' = MarkerGenePrecisionRecall(gin)
    /\ GraderUnchanged

\* ------------------------------------------- graders: distribution comparison
\* Cell types of a ground truth, and the one only an answer may name.
GtCellTypes == {"T", "B"}
AnswerCellTypes == GtCellTypes \cup {"Other"}

\* Percentages of the ground truth and of the answer.
ExpectedPcts == {40, 60}
ActualPcts == {40, 42, 45}

GtDistributions == UNION {[S -> ExpectedPcts] : S \in SUBSET GtCellTypes}
AgentDistributions == UNION {[S -> ActualPcts] : S \in SUBSET AnswerCellTypes}

\* ground_truth.get("total_cells"): absent, or a count.
GtTotals == {[present |-> FALSE, value |-> 0], [present |-> TRUE, value |-> 1000]}
AgentTotals == {1000, 1030, 1100}

\* tolerances.get("total_cells", {}) and tolerances.get("cell_type_percentages",
\* {}): the value key absent or given.
TotalTolerances == {[present |-> FALSE, value |-> 0], [present |-> TRUE, value |-> 50]}
PctTolerances == {[present |-> FALSE, value |-> 0], [present |-> TRUE, value |-> 1]}

\* Line 13: pct_tolerance_config.get("value", 3.0)
PctTolerance(in) == IF in.pct_tolerance.present THEN in.pct_tolerance.value ELSE 3

\* Line 39: total_cells_tolerance.get("value", 0)
TotalTolerance(in) == IF in.total_tolerance.present THEN in.total_tolerance.value ELSE 0

\* Lines 38-50: the total is checked when the ground truth has one.
TotalCellsPass(in) ==
    Abs(in.agent_total_cells - in.gt_total_cells.value) <= TotalTolerance(in)

\* Lines 53-76 for one cell type of the ground truth.
CellTypePass(in, cell_type) ==
    IF cell_type \notin DOMAIN in.agent_distribution
    THEN FALSE
    ELSE Abs(in.agent_distribution[cell_type] - in.gt_distribution[cell_type])
            <= PctTolerance(in)

\* Line 78: set(agent_distribution.keys()) - set(gt_distribution.keys())
ExtraTypes(in) == DOMAIN in.agent_distribution \ DOMAIN in.gt_distribution

\* all_pass with a cell type the ground truth does not have failing it.
AllPass_ExtraFails(in) ==
    /\ in.gt_total_cells.present => TotalCellsPass(in)
    /\ \A cell_type \in DOMAIN in.gt_distribution : CellTypePass(in, cell_type)
    /\ ExtraTypes(in) = {}

\* all_pass at line 97: set False at lines 49, 55 and 74 only.
AllPass(in) ==
    /\ in.gt_total_cells.present => TotalCellsPass(in)
    /\ \A cell_type \in DOMAIN in.gt_distribution : CellTypePass(in, cell_type)

\* DistributionComparisonGrader.evaluate_answer
DistributionComparison(in) ==
    IF ~in.has_total_cells \/ ~in.has_distribution
    THEN [done |-> TRUE, passed |-> FALSE, has_metrics |-> FALSE,
          missing |-> IF ~in.has_total_cells THEN "total_cells"
                      ELSE "cell_type_distribution"]
    ELSE [done |-> TRUE, passed |-> AllPass(in), has_metrics |-> TRUE,
          has_total_metrics |-> in.gt_total_cells.present,
          cell_type_pass |-> [c \in DOMAIN in.gt_distribution |-> CellTypePass(in, c)],
          has_extra_cell_types |-> ExtraTypes(in) # {},
          extra_cell_types |-> ExtraTypes(in),
          extra_in_reasoning |-> ExtraTypes(in) # {}]

DistributionInit ==
    /\ gin \in [grader : {"distribution_comparison"},
                 gt_total_cells : GtTotals, gt_distribution : GtDistributions,
                 total_tolerance : TotalTolerances, pct_tolerance : PctTolerances,
                 has_total_cells : BOOLEAN, agent_total_cells : AgentTotals,
                 has_distribution : BOOLEAN, agent_distribution : AgentDistributions]
    /\ gin.has_total_cells \/ gin.agent_total_cells = 1000
    /\ gin.has_distribution \/ gin.agent_distribution = <<>>
    /\ gout = [done |-> FALSE]

DistributionEvaluate ==
    /\ gin.grader = "distribution_comparison"
    /\ ~gout.done
    /\ gout' = DistributionComparison(gin)
    /\ GraderUnchanged

\* ------------------------------------------- graders: marker gene separation
\* Longest per_gene_stats list of an answer.
MaxStats == 2

\* AUROC values and thresholds are in percent.
StatGenes == {"Cd3e", "Ms4a1"}
Aurocs == {70, 90}
PerGeneStats == UNION {[1..n -> [gene : StatGenes, auroc : Aurocs]] : n \in 0..MaxStats}
AgentMeans == {80, 90}

\* pass_thresholds: mean_auroc (default 0.85), fraction_high (default 0.70),
\* per_gene_cutoff (default 0.80).
SeparationThresholds ==
    [mean_auroc : {85}, fraction_high : {50, 70}, per_gene_cutoff : {80}]

\* Lines 196-212: gene_aurocs[stat["gene"]] = stat["auroc"] for each entry in
\* order, so the last entry of a gene is the one kept.
GeneAurocs(per_gene_stats) ==
    LET named == {per_gene_stats[i].gene : i \in DOMAIN per_gene_stats}
        last(g) == CHOOSE i \in DOMAIN per_gene_stats :
                     /\ per_gene_stats[i].gene = g
                     /\ \A j \in DOMAIN per_gene_stats :
                           per_gene_stats[j].gene = g => j <= i
    IN [g \in named |-> per_gene_stats[last(g)].auroc]

RECURSIVE SumValues(_)
\* sum(gene_aurocs.values())
SumValues(d) ==
    IF DOMAIN d = {} THEN 0
    ELSE LET g == CHOOSE x \in DOMAIN d : TRUE
         IN d[g] + SumValues([x \in DOMAIN d \ {g} |-> d[x]])

\* Line 214: sum(gene_aurocs.values()) / len(gene_aurocs), as a fraction.
ComputedMeanAuroc(per_gene_stats) ==
    <<SumValues(GeneAurocs(per_gene_stats)), Cardinality(DOMAIN GeneAurocs(per_gene_stats))>>

\* Line 216: the genes of gene_aurocs at or above the cutoff.
HighAurocGenes(per_gene_stats, cutoff) ==
    {g \in DOMAIN GeneAurocs(per_gene_stats) : GeneAurocs(per_gene_stats)[g] >= cutoff}

\* Line 218 with the entries of the list counted in the numerator.
FractionHigh_OverEntries(per_gene_stats, cutoff) ==
    <<Cardinality({i \in DOMAIN per_gene_stats : per_gene_stats[i].auroc >= cutoff}),
      Len(per_gene_stats)>>

\* Line 218: len(high_auroc_genes) / num_genes, as a fraction.
FractionHigh(per_gene_stats, cutoff) ==
    <<Cardinality(HighAurocGenes(per_gene_stats, cutoff)), Len(per_gene_stats)>>

\* MarkerGeneSeparationGrader.evaluate, lines 144-148 and 160-240, for an
\* answer that was extracted and whose entries have gene and auroc.
MarkerGeneSeparation(in) ==
    IF ~in.has_stats \/ ~in.has_mean \/ Len(in.per_gene_stats) = 0
    THEN [done |-> TRUE, passed |-> FALSE, has_metrics |-> FALSE]
    ELSE LET fr == FractionHigh(in.per_gene_stats, in.thresholds.per_gene_cutoff)
             cm == ComputedMeanAuroc(in.per_gene_stats)
         IN [done |-> TRUE,
             passed |-> /\ in.mean_auroc >= in.thresholds.mean_auroc
                        /\ AtLeast(fr, in.thresholds.fraction_high),
             has_metrics |-> TRUE,
             num_genes |-> Len(in.per_gene_stats),
             mean_auroc_agent |-> in.mean_auroc,
             mean_auroc_computed |-> cm,
             fraction_high |-> fr,
             note |-> Abs(in.mean_auroc * cm[2] - cm[1]) * 1000 > 100 * cm[2]]

SeparationInit ==
    /\ gin \in [grader : {"marker_gene_separation"}, thresholds : SeparationThresholds,
                 has_stats : BOOLEAN, per_gene_stats : PerGeneStats,
                 has_mean : BOOLEAN, mean_auroc : AgentMeans]
    /\ gin.has_stats \/ gin.per_gene_stats = <<>>
    /\ gin.has_mean \/ gin.mean_auroc = 80
    /\ gout = [done |-> FALSE]

SeparationEvaluate ==
    /\ gin.grader = "marker_gene_separation"
    /\ ~gout.done
    /\ gout' = MarkerGeneSeparation(gin)
    /\ GraderUnchanged

\* ------------------------------------------- graders: spatial adjacency
\* The values an answer gives adjacency_pass: the two booleans, null and a
\* string, written as Python prints them.
AdjacencyValues == {"True", "False", "None", "'yes'"}

\* pass_thresholds with the median maximum given or left at its default 25.0;
\* the other three at their defaults 80.0, 60.0 and 60.0.
SpatialThresholds ==
    [max_median_ic_to_pc_um : {15, 25}, max_p90_ic_to_pc_um : {80},
     min_pct_ic_within_15um : {60}, min_pct_ic_mixed_within_55um : {60}]

SpatialAnswers ==
    [median_ic_to_pc_um : {20, 30}, p90_ic_to_pc_um : {70, 90},
     pct_ic_within_15um : {50, 60}, pct_ic_mixed_within_55um : {50, 60},
     adjacency_pass : AdjacencyValues]

\* Lines 36-39: the four metric checks.
MetricChecks(in) ==
    /\ in.answer.median_ic_to_pc_um <= in.thresholds.max_median_ic_to_pc_um
    /\ in.answer.p90_ic_to_pc_um <= in.thresholds.max_p90_ic_to_pc_um
    /\ in.answer.pct_ic_within_15um >= in.thresholds.min_pct_ic_within_15um
    /\ in.answer.pct_ic_mixed_within_55um >= in.thresholds.min_pct_ic_mixed_within_55um

\* Line 41: Python's "and" gives its first falsy operand, or else its last
\* one; the four checks are booleans, adjacency_pass is whatever the answer
\* holds.
SpatialPassed(in) ==
    IF MetricChecks(in) THEN in.answer.adjacency_pass ELSE "False"

\* SpatialAdjacencyGrader.evaluate_answer
SpatialAdjacency(in) ==
    IF in.missing
    THEN [done |-> TRUE, passed |-> "False", has_metrics |-> FALSE]
    ELSE [done |-> TRUE, passed |-> SpatialPassed(in), has_metrics |-> TRUE]

SpatialInit ==
    /\ gin \in [grader : {"spatial_adjacency"}, thresholds : SpatialThresholds,
                 missing : BOOLEAN, answer : SpatialAnswers]
    /\ gout = [done |-> FALSE]

SpatialEvaluate ==
    /\ gin.grader = "spatial_adjacency"
    /\ ~gout.done
    /\ gout' = SpatialAdjacency(gin)
    /\ GraderUnchanged

\* ------------------------------------------- graders: answer extraction
\* Longest transcript, and most content blocks of one message.
MaxMsgs == 2
MaxBlocks == 2

\* Content blocks: text; a tool_use of another tool whose summary holds an
\* answer block; a submit_response tool_use whose summary holds no answer
\* block, one whose text is not JSON, or one with the object A or B.
Blocks == {"text", "other_tool_A", "submit_none", "submit_bad", "submit_A", "submit_B"}

\* Lines 36-37: a tool_use block named submit_response.
IsSubmit(block) == block \in {"submit_none", "submit_bad", "submit_A", "submit_B"}

\* Line 41: re.search finds <EVAL_ANSWER>...</EVAL_ANSWER> in the summary.
HasTags(block) == block \in {"other_tool_A", "submit_bad", "submit_A", "submit_B"}

\* Lines 43-48: json.loads of the text between the tags, None when it fails.
ParsedAnswer(block) ==
    CASE block \in {"submit_A", "other_tool_A"} -> "A"
      [] block = "submit_B" -> "B"
      [] OTHER -> None

BlockLists == UNION {[1..n -> Blocks] : n \in 0..MaxBlocks}

\* Messages: assistant messages with any content, and a user message that
\* quotes a submit_response block.
Messages ==
    [role : {"assistant"}, content : BlockLists]
        \cup {[role |-> "user", content |-> <<"submit_B">>]}

Conversations == UNION {[1..n -> Messages] : n \in 0..MaxMsgs}

NotFound == [found |-> FALSE, answer |-> None]

RECURSIVE ScanBlocks(_, _)
\* Lines 35-48: the blocks of one message from the first on; the first
\* submit_response block with tags ends the whole search.
ScanBlocks(content, i) ==
    IF i > Len(content) THEN NotFound
    ELSE IF IsSubmit(content[i]) /\ HasTags(content[i])
         THEN [found |-> TRUE, answer |-> ParsedAnswer(content[i])]
         ELSE ScanBlocks(content, i + 1)

RECURSIVE ScanMessages(_, _)
\* Lines 30-49: the messages from the last one back; others than assistant
\* messages are skipped.
ScanMessages(conversation, m) ==
    IF m = 0 THEN None
    ELSE IF conversation[m].role # "assistant"
         THEN ScanMessages(conversation, m - 1)
         ELSE LET hit == ScanBlocks(conversation[m].content, 1)
              IN IF hit.found THEN hit.answer
                 ELSE ScanMessages(conversation, m - 1)

\* BinaryGrader.extract_answer_from_tags
extract_answer_from_tags(conversation) == ScanMessages(conversation, Len(conversation))

\* BinaryGrader.evaluate, lines 15-24; evaluate_answer passes the object A.
BinaryEvaluate(in) ==
    LET extracted == extract_answer_from_tags(in.conversation)
    IN IF extracted = None
       THEN [done |-> TRUE, agent_answer |-> None, passed |-> FALSE,
             reasoning |-> "Failed to extract answer from conversation history",
             raised |-> FALSE]
       ELSE [done |-> TRUE, agent_answer |-> extracted, passed |-> extracted = "A",
             reasoning |-> "verdict", raised |-> FALSE]

ExtractInit ==
    /\ gin \in [grader : {"binary"}, conversation : Conversations]
    /\ gout = [done |-> FALSE]

ExtractEvaluate ==
    /\ gin.grader = "binary"
    /\ ~gout.done
    /\ gout' = BinaryEvaluate(gin)
    /\ GraderUnchanged

\* ------------------------------------------- workspace and cache on one disk
\* Paths are sequences of components below <project root>/.spatialbench.
CacheDir == <<"cache">>
ManifestPath == <<"cache", "manifest.json">>

\* The file name a cache key stands for: f"{uri_hash}__{filename}".
KeyFile(key) ==
    CASE key = <<"h1", "x.csv">> -> "h1__x.csv"
      [] key = <<"h2", "y.h5ad">> -> "h2__y.h5ad"
      [] OTHER -> "h3__x.csv"

\* Task ids: a plain name, and one with a parent-directory component.
DiskEvalIds == {"e1", "../cache"}

\* The components pathlib splits an id into.
Components(eval_id) == IF eval_id = "../cache" THEN <<"..", "cache">> ELSE <<eval_id>>

\* Lines 108-112: project_root / ".spatialbench" / "workspace" / [run_id /] eval_id
WorkDirPath(eval_id, run_id) ==
    <<"workspace">> \o (IF run_id # None THEN <<run_id>> ELSE <<>>) \o Components(eval_id)

DirEntry == [kind |-> "dir"]

RECURSIVE Normalise(_)
\* The place the operating system resolves a path to.
Normalise(raw) ==
    IF raw = <<>> THEN <<>>
    ELSE LET front == Normalise(SubSeq(raw, 1, Len(raw) - 1))
             last == raw[Len(raw)]
         IN IF last = ".."
            THEN (IF front = <<>> THEN <<>> ELSE SubSeq(front, 1, Len(front) - 1))
            ELSE Append(front, last)

\* Every directory the path goes through exists.
Resolvable(d, raw) ==
    \A k \in 0..(Len(raw) - 1) :
        /\ Normalise(SubSeq(raw, 1, k)) \in DOMAIN d
        /\ d[Normalise(SubSeq(raw, 1, k))].kind = "dir"

\* Path.exists(): follows a link at the end of the path.
PathExists(d, raw) ==
    /\ Resolvable(d, raw)
    /\ Normalise(raw) \in DOMAIN d
    /\ d[Normalise(raw)].kind = "link" => d[Normalise(raw)].target \in DOMAIN d

IsPrefix(p, q) == Len(p) <= Len(q) /\ SubSeq(q, 1, Len(p)) = p

Put(d, p, e) == [q \in DOMAIN d \cup {p} |-> IF q = p THEN e ELSE d[q]]

\* Path.unlink()
Unlink(d, p) == [q \in DOMAIN d \ {p} |-> d[q]]

\* shutil.rmtree(path): the directory and everything below it goes; a link
\* below it is removed, what it points to stays.
RemoveTree(d, p) == [q \in {x \in DOMAIN d : ~IsPrefix(p, x)} |-> d[q]]

\* Path.mkdir(parents=True): the missing directories on the way are made;
\* FileExistsError when the path itself is there.
MakeDirs(d, raw) ==
    LET onTheWay == {Normalise(SubSeq(raw, 1, k)) : k \in 0..(Len(raw) - 1)}
        withParents == [q \in DOMAIN d \cup onTheWay |-> IF q \in DOMAIN d THEN d[q] ELSE DirEntry]
    IN IF Normalise(raw) \in DOMAIN withParents
       THEN [disk |-> withParents, raised |-> TRUE]
       ELSE [disk |-> Put(withParents, Normalise(raw), DirEntry), raised |-> FALSE]

\* get_cache_manifest(): {} when manifest.json is not there.
ManifestOn(d) ==
    IF ManifestPath \in DOMAIN d THEN d[ManifestPath].entries ELSE EmptyManifest

\* download_single_dataset, lines 43-46: the hit test on the disk.
DiskHit(d, uri) ==
    /\ uri \in DOMAIN ManifestOn(d)
    /\ <<"cache", KeyFile(ManifestOn(d)[uri])>> \in DOMAIN d

\* download_single_dataset: get_cache_dir() makes the cache directory when it
\* is missing; a miss writes the file and the manifest.
Fetched(d, uri) ==
    LET d0 == IF CacheDir \in DOMAIN d THEN d ELSE Put(d, CacheDir, DirEntry)
    IN IF DiskHit(d0, uri) THEN d0
       ELSE Put(Put(d0, <<"cache", KeyFile(get_cache_key(uri))>>, [kind |-> "file", bytes |-> uri]),
                ManifestPath, [kind |-> "manifest", entries |-> ManifestPut(ManifestOn(d0), uri)])

\* download_data for one node, lines 75-80: fetch, then replace what is at
\* the basename by a link to the cached file; os.symlink raises when a
\* dangling link is left there.
Staged(d, dir, uri) ==
    LET d1 == Fetched(d, uri)
        cached_file == <<"cache", KeyFile(ManifestOn(d1)[uri])>>
        target_raw == dir \o <<PathName(uri)>>
        target_file == Normalise(target_raw)
        d2 == IF PathExists(d1, target_raw) THEN Unlink(d1, target_file) ELSE d1
    IN IF target_file \in DOMAIN d2 THEN d2
       ELSE Put(d2, target_file, [kind |-> "link", target |-> cached_file])

\* The dataset files and the manifest found in the cache directory.
CachePart(d) ==
    [q \in {x \in DOMAIN d : IsPrefix(CacheDir, x) /\ d[x].kind \in {"file", "manifest"}} |-> d[q]]

\* A disk whose cache holds the URIs in s, with or without a workspace
\* directory left by earlier runs.
DiskWith(s, ws) ==
    LET paths == {<<>>, CacheDir} \cup (IF s = {} THEN {} ELSE {ManifestPath})
                 \cup {<<"cache", KeyFile(get_cache_key(u))>> : u \in s}
                 \cup (IF ws THEN {<<"workspace">>} ELSE {})
    IN [q \in paths |->
          IF q = ManifestPath THEN [kind |-> "manifest", entries |-> [u \in s |-> get_cache_key(u)]]
          ELSE IF Len(q) = 2 THEN [kind |-> "file",
                                   bytes |-> CHOOSE u \in s : q = <<"cache", KeyFile(get_cache_key(u))>>]
          ELSE DirEntry]

DiskInit ==
    /\ \E s \in SUBSET URIs, ws \in BOOLEAN : disk = DiskWith(s, ws)
    /\ staged = [work_dir |-> <<>>, before |-> CachePart(disk), dotdot |-> FALSE]

DiskUnchanged ==
    UNCHANGED <<poolVars, adapterVars, graderVars, cacheVars, workerVars, runVars, batchVars>>

\* setup_workspace(eval_id, run_id), lines 107-119, on the disk.
DiskSetup(eval_id, run_id) ==
    LET dir == WorkDirPath(eval_id, run_id)
        cleared == IF PathExists(disk, dir)
                   THEN RemoveTree(disk, Normalise(dir)) ELSE disk
        made == MakeDirs(cleared, dir)
    IN /\ staged.work_dir = <<>>
       /\ disk' = made.disk
       /\ staged' = [staged EXCEPT !.work_dir = IF made.raised THEN <<>> ELSE dir,
                                   !.dotdot = @ \/ eval_id = "../cache"]
       /\ DiskUnchanged

\* download_data, one node.
DiskStage(uri) ==
    /\ staged.work_dir # <<>>
    /\ disk' = Staged(disk, staged.work_dir, uri)
    /\ UNCHANGED staged
    /\ DiskUnchanged

\* cleanup_workspace(work_dir, keep), lines 121-127.
DiskCleanup(keep) ==
    /\ staged.work_dir # <<>>
    /\ disk' = IF keep THEN disk ELSE RemoveTree(disk, Normalise(staged.work_dir))
    /\ staged' = [staged EXCEPT !.work_dir = <<>>]
    /\ DiskUnchanged

DiskNext ==
    \/ \E e \in DiskEvalIds, r \in RunIds : DiskSetup(e, r)
    \/ \E uri \in URIs : DiskStage(uri)
    \/ \E keep \in BOOLEAN : DiskCleanup(keep)

\* ------------------------------------------- parallel batch: the worker pool
\* Lines 153-157: every eval file is submitted to a pool of max_workers =
\* parallel processes; all evaluations share the run_id of line 102 and each
\* uses the "id" of its task spec as eval_id. Nothing in batch() or in
\* TestCase compares the ids of different files.
PoolInit ==
    /\ workspace = [d \in WorkDirs |-> NoDir]
    /\ last_call = NoCall
    /\ \E n \in 1..MaxPoolEvals, k \in BOOLEAN, par \in {q \in ParallelChoices : q > 1} :
         \E ids \in [1..n -> EvalIds] :
            pool = [ids |-> ids, phase |-> [i \in 1..n |-> "queued"], keep |-> k,
                    parallel |-> par, run_id |-> "r1"]

PoolDir(i) == WorkDirOf(pool.ids[i], pool.run_id)

InFlight == {i \in DOMAIN pool.phase : pool.phase[i] \in {"setup", "running"}}

PoolUnchanged ==
    UNCHANGED <<last_call, adapterVars, graderVars, diskVars, cacheVars, workerVars, runVars, batchVars>>

\* A free worker takes evaluation i; setup_workspace lines 114-116.
PoolSetupRemove(i) ==
    /\ pool.phase[i] = "queued"
    /\ Cardinality(InFlight) < pool.parallel
    /\ workspace' = IF workspace[PoolDir(i)].exists THEN rmtree(workspace, PoolDir(i))
                    ELSE workspace
    /\ pool' = [pool EXCEPT !.phase[i] = "setup"]
    /\ PoolUnchanged

\* setup_workspace line 117: mkdir on a path that is free.
PoolSetupMkdir(i) ==
    /\ pool.phase[i] = "setup"
    /\ ~workspace[PoolDir(i)].exists
    /\ workspace' = mkdir(workspace, PoolDir(i), i)
    /\ pool' = [pool EXCEPT !.phase[i] = "running"]
    /\ PoolUnchanged

\* setup_workspace line 117: the path was created in between, mkdir raises
\* FileExistsError, _run_single_eval returns an error record (lines 39-48).
PoolSetupCollides(i) ==
    /\ pool.phase[i] = "setup"
    /\ workspace[PoolDir(i)].exists
    /\ pool' = [pool EXCEPT !.phase[i] = "error"]
    /\ UNCHANGED workspace
    /\ PoolUnchanged

\* Staging and the agent of evaluation i write into its work_dir.
PoolWrite(i, item) ==
    /\ pool.phase[i] = "running"
    /\ workspace[PoolDir(i)].exists
    /\ item \notin workspace[PoolDir(i)].contents
    /\ workspace' = [workspace EXCEPT ![PoolDir(i)].contents = @ \cup {item}]
    /\ UNCHANGED pool
    /\ PoolUnchanged

\* cleanup_workspace, lines 121-127, on a work_dir that is there.
PoolCleanup(i) ==
    /\ pool.phase[i] = "running"
    /\ pool.keep \/ workspace[PoolDir(i)].exists
    /\ workspace' = IF pool.keep THEN workspace ELSE rmtree(workspace, PoolDir(i))
    /\ pool' = [pool EXCEPT !.phase[i] = "done"]
    /\ PoolUnchanged

\* cleanup_workspace line 126 on a work_dir that is gone: rmtree raises
\* FileNotFoundError, _run_single_eval returns an error record.
PoolCleanupMissing(i) ==
    /\ pool.phase[i] = "running"
    /\ ~pool.keep
    /\ ~workspace[PoolDir(i)].exists
    /\ pool' = [pool EXCEPT !.phase[i] = "error"]
    /\ UNCHANGED workspace
    /\ PoolUnchanged

PoolNext ==
    \E i \in DOMAIN pool.phase :
        \/ PoolSetupRemove(i)
        \/ PoolSetupMkdir(i)
        \/ PoolSetupCollides(i)
        \/ \E it \in Items : PoolWrite(i, it)
        \/ PoolCleanup(i)
        \/ PoolCleanupMissing(i)

CacheInitAll == CacheInit /\ WorkersInit /\ RunIdle /\ BatchIdle /\ MoreIdle

SpecCache == CacheInitAll /\ [][CacheNext]_vars

\* A cache whose manifest names the URIs in s while their files are gone
\* (the case line 45 tests for).
StaleCache(s) ==
    /\ manifest = [u \in s |-> get_cache_key(u)]
    /\ files = {}
    /\ downloads = [u \in URIs |-> 0]
    /\ writers = [u \in URIs |-> {}]
    /\ fetched = {}
    /\ returned = [u \in URIs |-> <<>>]

SeqInitAll ==
    /\ \E s \in {{}, {"u1"}} : StaleCache(s)
    /\ WorkersInit
    /\ RunIdle
    /\ BatchIdle
    /\ MoreIdle

\* Fetches made in sequence on a cache that holds no file yet.
SpecSeq == SeqInitAll /\ [][SeqNext]_vars

RunInitAll == CacheInit /\ WorkersInit /\ RunInit /\ BatchIdle /\ MoreIdle

\* One EvalRunner.run call, for every task spec, agent function and agent
\* behaviour.
SpecRun == RunInitAll /\ [][RunNext]_vars

BatchInitAll ==
    /\ \E s \in {{}, {"u1"}} : WarmCache(s)
    /\ WorkersInit
    /\ RunIdle
    /\ BatchInit
    /\ MoreIdle

\* One batch command, for every directory listing and option.
SpecBatch == BatchInitAll /\ [][BatchNext]_vars

PoolInitAll ==
    CacheInit /\ WorkersInit /\ RunIdle /\ BatchIdle /\ DiskIdle /\ PoolInit /\ AdapterIdle /\ GraderIdle

\* The evaluations of one batch run with --parallel > 1.
SpecPool == PoolInitAll /\ [][PoolNext]_vars

AdapterInitAll ==
    CacheInit /\ WorkersInit /\ RunIdle /\ BatchIdle /\ DiskIdle /\ WorkspaceIdle /\ GraderIdle /\ AdapterInit

\* One call of an agent adapter. Time passes and the adapter's own code runs
\* on: a timeout that is armed expires, an agent that finishes does finish,
\* and the code after the agent is executed. Nothing makes an agent write a
\* file or fail.
SpecAdapter ==
    /\ AdapterInitAll
    /\ [][AdapterNext]_vars
    /\ WF_vars(TimeoutExpires)
    /\ WF_vars(AgentFinishes)
    /\ WF_vars(AdapterCollect)

JaccardInitAll ==
    /\ CacheInit /\ WorkersInit /\ RunIdle /\ BatchIdle /\ DiskIdle
    /\ WorkspaceIdle /\ AdapterIdle /\ JaccardInit

\* The Label Set Jaccard grader on every pair of label lists.
SpecJaccard == JaccardInitAll /\ [][JaccardEvaluate]_vars

NumericInitAll ==
    /\ CacheInit /\ WorkersInit /\ RunIdle /\ BatchIdle /\ DiskIdle
    /\ WorkspaceIdle /\ AdapterIdle /\ NumericInit

\* The Numeric Tolerance grader on every ground truth, tolerance and answer.
SpecNumeric == NumericInitAll /\ [][NumericEvaluate]_vars

PrecisionRecallInitAll ==
    /\ CacheInit /\ WorkersInit /\ RunIdle /\ BatchIdle /\ DiskIdle
    /\ WorkspaceIdle /\ AdapterIdle /\ PrecisionRecallInit

\* The Marker Gene Precision/Recall grader on every pair of gene lists.
SpecPrecisionRecall == PrecisionRecallInitAll /\ [][PrecisionRecallEvaluate]_vars

DistributionInitAll ==
    /\ CacheInit /\ WorkersInit /\ RunIdle /\ BatchIdle /\ DiskIdle
    /\ WorkspaceIdle /\ AdapterIdle /\ DistributionInit

\* The Distribution Comparison grader on every ground truth and answer.
SpecDistribution == DistributionInitAll /\ [][DistributionEvaluate]_vars

SeparationInitAll ==
    /\ CacheInit /\ WorkersInit /\ RunIdle /\ BatchIdle /\ DiskIdle
    /\ WorkspaceIdle /\ AdapterIdle /\ SeparationInit

\* The Marker Gene Separation grader on every list of per-gene statistics.
SpecSeparation == SeparationInitAll /\ [][SeparationEvaluate]_vars

SpatialInitAll ==
    /\ CacheInit /\ WorkersInit /\ RunIdle /\ BatchIdle /\ DiskIdle
    /\ WorkspaceIdle /\ AdapterIdle /\ SpatialInit

\* The Spatial Adjacency grader on every answer.
SpecSpatial == SpatialInitAll /\ [][SpatialEvaluate]_vars

ExtractInitAll ==
    /\ CacheInit /\ WorkersInit /\ RunIdle /\ BatchIdle /\ DiskIdle
    /\ WorkspaceIdle /\ AdapterIdle /\ ExtractInit

\* Answer extraction and BinaryGrader.evaluate on every transcript.
SpecExtract == ExtractInitAll /\ [][ExtractEvaluate]_vars

DiskInitAll ==
    /\ CacheInit /\ WorkersInit /\ RunIdle /\ BatchIdle
    /\ WorkspaceIdle /\ AdapterIdle /\ GraderIdle /\ DiskInit

\* Workspaces set up, staged into and cleaned up, one after the other, on a
\* disk that also holds the cache.
SpecDisk == DiskInitAll /\ [][DiskNext]_vars

ProvisionInitAll == CacheInit /\ WorkersInit /\ RunIdle /\ BatchIdle /\ MoreIdle

\* setup_workspace calls in sequence, with workspaces filled and discarded
\* between them.
SpecProvision == ProvisionInitAll /\ [][ProvisionNext]_vars

\* ------------------------------------------------------------------ claims

AllCallsReturned == \A w \in Workers : wpc[w] = "idle"

\* C1: once every download_single_dataset call of every worker has returned,
\* the manifest holds an entry for every URI a call returned a path for; no
\* worker's manifest write drops an entry another worker recorded.
C1_ManifestKeepsEveryFetch ==
    AllCallsReturned => \A uri \in fetched : uri \in DOMAIN manifest

\* C2: the remote object of a URI is retrieved at most once and its cache
\* file is written by at most one worker, also when two workers fetch it for
\* the first time at once.
C2_SingleRetrieval ==
    \A uri \in URIs : downloads[uri] <= 1 /\ Cardinality(writers[uri]) <= 1

RunEnded == pc \in {"returned", "raised"}

\* C3: on every exit path of EvalRunner.run after the workspace was
\* provisioned (return, or an exception leaving run), cleanup_workspace has
\* been executed.
C3_CleanupOnEveryExit ==
    (RunEnded /\ hist.provisioned) => hist.cleanup_called

\* A grader actually ran: one is configured, its type is registered and an
\* answer was collected.
GraderRan(tc, ans) == tc.grader \in GRADER_REGISTRY /\ ans # None

\* C5: in the returned record, passed is true or false exactly when a grader
\* actually ran, and null in every other case.
C5_PassedIffGraderRan ==
    pc = "returned" =>
        /\ GraderRan(test_case, result_dict.agent_answer) <=> result_dict.passed \in {"True", "False"}
        /\ ~GraderRan(test_case, result_dict.agent_answer) => result_dict.passed = None

\* C6: an exception raised by the agent function never leaves run: the run
\* goes on through answer collection and the grading guards to cleanup and
\* returns a result record.
C6_AgentExceptionCaught ==
    hist.agent_raised =>
        /\ pc \in {"collect", "grade", "cleanup", "return", "returned"}
        /\ pc # "returned" => ENABLED RunNext
        /\ pc = "returned" => result_dict.exists /\ hist.cleanup_called

C6_Witness ==
    pc = "returned" /\ hist.agent_raised /\ result_dict.exists /\ hist.cleanup_called

\* The keys under which a record's metadata would carry an invocation error.
ErrorKeys == {"error", "error_details"}

\* C7: when the agent function raised, the returned record has
\* agent_answer = null and passed = null, and its metadata records the
\* invocation error.
C7_RaiseDegradesToNoAnswer ==
    (pc = "returned" /\ hist.agent_raised) =>
        /\ result_dict.agent_answer = None
        /\ result_dict.passed = None
        /\ result_dict.has_metadata
        /\ result_dict.metadata \cap ErrorKeys # {}

\* C8: a retrieval failure while staging leaves run as an exception: no
\* record is returned, the agent function was never called, and the manifest
\* has gained no entry for the URI whose retrieval failed.
C8_FetchFailureIsFatal ==
    hist.failed_uri # None =>
        /\ pc = "raised"
        /\ ~hist.agent_invoked
        /\ ~result_dict.exists
        /\ hist.failed_uri \in DOMAIN manifest => hist.had_entry

C8_Witness ==
    pc = "raised" /\ hist.failed_uri # None /\ DOMAIN manifest # {}
    /\ hist.failed_uri \notin DOMAIN manifest

\* C9: an exception a grader raises while scoring is turned into a
\* GraderResult with passed = false whose reasoning carries the exception
\* text; it never leaves run, and cleanup still runs.
C9_GraderExceptionCaught ==
    hist.grader_raised =>
        /\ pc \in {"cleanup", "return", "returned"}
        /\ grader_result.exists
        /\ grader_result.passed = "False"
        /\ grader_result.reasoning = "exception_text"
        /\ pc # "returned" => ENABLED RunNext
        /\ pc = "returned" =>
            /\ hist.cleanup_called
            /\ result_dict.passed = "False"
            /\ result_dict.grader_result = grader_result

C9_Witness ==
    pc = "returned" /\ hist.grader_raised /\ hist.cleanup_called
    /\ result_dict.passed = "False"

BatchEnded == bpc \in {"done", "aborted"}

\* C4: a batch command given an agent and N >= 1 task spec files ends with
\* exactly N result records, one per file, sequential or parallel, also for
\* files that do not parse and files whose dataset retrieval fails.
C4_OneRecordPerSpec ==
    (BatchEnded /\ options.agent # "none" /\ eval_files # <<>>) =>
        /\ Len(results) = Len(eval_files)
        /\ \A i \in DOMAIN eval_files : \E j \in DOMAIN results : results[j].eval = eval_files[i]

\* The grader type of a task spec file is configured and not registered.
UnknownGraderType(f) ==
    Parseable(f) /\ TestCaseOf(f).grader \notin GRADER_REGISTRY \cup {"none"}

\* The records of evaluations with an unknown grader type whose run returned.
UnknownGraderRecords(rs) ==
    {i \in DOMAIN rs : ~rs[i].has_error /\ UnknownGraderType(rs[i].eval)}

\* C10: an unknown grader type is not fatal: run() returns a record with
\* passed = null and grader_result = null, and the batch summary counts that
\* evaluation in total_evals and in neither passed nor failed.
C10_UnknownGraderUngraded ==
    /\ (pc = "returned" /\ current # 0 /\ UnknownGraderType(eval_files[current])) =>
          result_dict.passed = None /\ ~result_dict.grader_result.exists
    /\ summary.exists =>
          /\ summary.total_evals = Len(results)
          /\ \A i \in UnknownGraderRecords(results) : results[i].passed = None
          /\ summary.passed =
                Cardinality({i \in DOMAIN results \ UnknownGraderRecords(results) :
                                results[i].passed = "True"})
          /\ summary.failed =
                Cardinality({i \in DOMAIN results \ UnknownGraderRecords(results) :
                                results[i].passed = "False"})

C10_Witness ==
    /\ summary.exists
    /\ UnknownGraderRecords(results) # {}
    /\ summary.total_evals = 2
    /\ summary.passed = 1
    /\ summary.failed = 0

\* C11: two download_single_dataset calls made in sequence for the same URI
\* retrieve the remote object exactly once: every call after the first
\* successful one is a cache hit that retrieves nothing, writes neither the
\* manifest nor the cache directory, and returns the path the first returned.
C11_SecondCallIsPureHit ==
    /\ [](\A uri \in URIs :
            returned[uri] # <<>> =>
                /\ downloads[uri] = 1
                /\ CacheHit(manifest, files, uri)
                /\ \A i \in DOMAIN returned[uri] : returned[uri][i] = returned[uri][1])
    /\ [][\A uri \in URIs :
            (returned[uri] # <<>> /\ Len(returned'[uri]) > Len(returned[uri])) =>
                (manifest' = manifest /\ files' = files /\ downloads' = downloads)]_vars

C11_Witness ==
    /\ Len(returned["u1"]) = 2
    /\ returned["u1"][2] = returned["u1"][1]
    /\ downloads["u1"] = 1
    /\ NoCallInProgress

\* C12: in every state reached by fetches made in sequence the manifest maps
\* each URI it holds to the key made of the URI's truncated digest and its
\* basename (one entry per URI, as the manifest is a mapping), and no step
\* removes an entry or changes the key of one.
C12_ManifestOnlyGrows ==
    /\ [](\A uri \in DOMAIN manifest : manifest[uri] = <<UriHash(uri), PathName(uri)>>)
    /\ [][\A uri \in DOMAIN manifest :
            uri \in DOMAIN manifest' /\ manifest'[uri] = manifest[uri]]_vars

C12_Witness ==
    /\ {"u1", "u3"} \subseteq DOMAIN manifest
    /\ manifest["u1"] # manifest["u3"]
    /\ manifest["u1"][2] = manifest["u3"][2]
    /\ downloads["u1"] >= 1 /\ downloads["u3"] >= 1

\* C14: every setup_workspace(eval_id, run_id) call returns the path
\* <root>/<run_id>/<eval_id>, or <root>/<eval_id> without a run id, and on
\* return that directory exists and is empty, whatever it held before the
\* call (nothing, or what an earlier provision and staging left there).
C14_ProvisionYieldsEmptyDir ==
    last_call.made =>
        /\ last_call.path =
              (IF last_call.run_id = None THEN <<"workspace", last_call.eval_id>>
               ELSE <<"workspace", last_call.run_id, last_call.eval_id>>)
        /\ workspace[last_call.path].exists
        /\ workspace[last_call.path].contents = {}

C14_Witness ==
    /\ last_call.made
    /\ workspace[last_call.path].contents = {}
    /\ \E d \in WorkDirs \ {last_call.path} : workspace[d].contents = Items

\* An evaluation is using its workspace from the return of setup_workspace
\* to its call of cleanup_workspace.
Using(i) == pool.phase[i] = "running"

\* C13: in a batch run with parallel workers no two evaluations in flight
\* use the same workspace directory, and the workspace an evaluation is
\* using is still the directory it provisioned: no other evaluation's
\* provisioning or cleanup has deleted or replaced it.
C13_WorkspacesIsolated ==
    \A i \in DOMAIN pool.phase :
        Using(i) =>
            /\ \A j \in DOMAIN pool.phase \ {i} : Using(j) => PoolDir(j) # PoolDir(i)
            /\ workspace[PoolDir(i)].exists
            /\ workspace[PoolDir(i)].owner = i

\* What the agent function handed back to run(): nothing when it raised.
DirectAnswer == IF hist.agent_raised THEN None ELSE AnswerOfResult(hist.raw_result)

C18_WitnessMalformed ==
    /\ pc = "grade"
    /\ hist.agent_invoked
    /\ DirectAnswer = None
    /\ work_dir.answer_file = "malformed"
    /\ agent_answer = None

AdapterCallEnded == adapter.pc \in {"returned", "raised"}

\* C15: every adapter call ends: whatever the agent does, also when it never
\* finishes, the call that was started is over at some later time.
C15_AdapterCallEnds == (adapter.pc = "running") ~> AdapterCallEnded

\* C16: an adapter call that ended by the expiry of its timeout returns
\* answer = null and records the timeout in its metadata, whatever files the
\* agent had written before the expiry.
C16_TimedOutMeansNoAnswer ==
    (adapter.pc = "returned" /\ adapter.timed_out) =>
        /\ adapter.result.answer = None
        /\ "timed_out" \in adapter.result.metadata

\* C17: an adapter call raises only when the agent could not be run at all,
\* never for a timeout or for an answer file that is missing or is not JSON,
\* and whenever it returns answer = null the returned metadata holds
\* error_details.
C17_NullAnswerHasErrorDetails ==
    /\ adapter.pc = "raised" => adapter.crashed
    /\ (adapter.pc = "returned" /\ adapter.result.answer = None) =>
          "error_details" \in adapter.result.metadata

TruthSet == Range(gin.ground_truth_labels)
PredictedSet == Range(gin.cell_types_predicted)

\* C19: for all predicted and ground-truth label sets, jaccard_index = 1 if
\* and only if the predicted set equals the ground-truth set.
C19_JaccardOneIffEqual ==
    (gout.done /\ gout.has_metrics) =>
        (gout.jaccard_index[1] = gout.jaccard_index[2] <=> PredictedSet = TruthSet)

\* C19, amended: jaccard_index = 1 if and only if the predicted set equals
\* the ground-truth set and is not empty; when both sets are empty the index
\* is 0.
C19_JaccardOneIffEqualNonEmpty ==
    (gout.done /\ gout.has_metrics) =>
        /\ gout.jaccard_index[1] = gout.jaccard_index[2] <=>
              (PredictedSet = TruthSet /\ TruthSet # {})
        /\ (PredictedSet = {} /\ TruthSet = {}) => gout.jaccard_index[1] = 0

C19_Witness ==
    /\ gout.done /\ gout.has_metrics
    /\ Len(gin.cell_types_predicted) = 3
    /\ Cardinality(PredictedSet) = 2
    /\ PredictedSet = TruthSet
    /\ gout.jaccard_index = <<2, 2>>

\* The rule a field of the ground truth has to satisfy, for the tolerance
\* configured for it (none: absolute with value 0).
C20_RuleHolds(f) ==
    LET tol == gin.tolerances[f]
        type == IF tol.present /\ tol.has_type THEN tol.type ELSE "absolute"
        num == IF tol.present /\ tol.has_value THEN tol.num ELSE 0
        den == IF tol.present /\ tol.has_value THEN tol.den ELSE 1
        actual == gin.answer[f].value
        expected == gin.ground_truth[f]
    IN CASE type = "absolute" -> Abs(actual - expected) * den <= num
         [] type = "min" -> actual >= expected
         [] type = "max" -> actual <= expected
         [] type = "relative" ->
              expected # 0 /\ Abs(actual - expected) * den <= num * Abs(expected)
         [] OTHER -> FALSE

C20_FieldOk(f) == gin.answer[f].present /\ C20_RuleHolds(f)

\* C20: Numeric Tolerance passes if and only if every ground-truth field is
\* in the answer and satisfies its rule (absolute: |actual - expected| <=
\* value, value 0 when none is configured; min: actual >= expected; max:
\* actual <= expected; an unrecognised type fails). Every field is diagnosed
\* whatever happened to the fields before it: a field in the answer has its
\* metrics, a missing or failing field is listed among the failures; and in
\* absolute mode the reported error is |actual - expected|.
C20_NumericPassIffAllFieldsOk ==
    gout.done =>
        /\ gout.passed <=> \A f \in Range(gin.fields) : C20_FieldOk(f)
        /\ \A f \in Range(gin.fields) :
              /\ gin.answer[f].present <=> f \in DOMAIN gout.metrics
              /\ ~C20_FieldOk(f) <=> f \in Range(gout.failures)
              /\ gin.answer[f].present => (gout.metrics[f].pass <=> C20_RuleHolds(f))
              /\ (gin.answer[f].present /\ ToleranceType(gin.tolerances[f]) = "absolute") =>
                    gout.metrics[f].error =
                        Finite(Abs(gin.answer[f].value - gin.ground_truth[f]), 1)

\* ground_truth total_cells = 1000, tolerance absolute 50, answer 1030:
\* passes with error 30.
C20_Witness ==
    /\ gout.done
    /\ gin.fields = <<"total_cells">>
    /\ gin.ground_truth["total_cells"] = 1000
    /\ gin.tolerances["total_cells"] = Tol(TRUE, "absolute", TRUE, 50, 1)
    /\ gin.answer["total_cells"] = [present |-> TRUE, value |-> 1030]
    /\ gout.passed
    /\ gout.metrics["total_cells"].error = Finite(30, 1)

\* A failing field that follows a missing one is still diagnosed.
C20_WitnessDiagnosedAfterMissing ==
    /\ gout.done
    /\ gin.fields = NumericFields
    /\ ~gin.answer["total_cells"].present
    /\ gin.answer["n_genes"] = [present |-> TRUE, value |-> 940]
    /\ gin.ground_truth["n_genes"] = 1000
    /\ gin.tolerances["n_genes"] = Tol(TRUE, "min", FALSE, 0, 1)
    /\ ~gout.passed
    /\ gout.failures = <<"total_cells", "n_genes">>
    /\ gout.metrics["n_genes"].error = Finite(60, 1)

\* The canonical and the predicted genes, compared without regard to case.
C21_Canonical == {Lower(g) : g \in Range(gin.canonical_markers)}
C21_TP == C21_Canonical \cap {Lower(g) : g \in Range(gin.top_marker_genes)}

\* C21: with k the length of the predicted list and matching without regard
\* to case, precision@k = |TP| / k, and 0 when k = 0; recall@k = |TP| /
\* |canonical|, and 0 when the canonical set is empty; no denominator is 0,
\* both values lie in [0, 1], and the grader passes iff precision@k and
\* recall@k reach their thresholds.
C21_PrecisionRecallWellDefined ==
    (gout.done /\ gout.has_metrics) =>
        LET k == Len(gin.top_marker_genes)
            p == gout.precision_at_k
            r == gout.recall_at_k
        IN /\ gout.k = k
           /\ p = (IF k = 0 THEN <<0, 1>> ELSE <<Cardinality(C21_TP), k>>)
           /\ r = (IF C21_Canonical = {} THEN <<0, 1>>
                   ELSE <<Cardinality(C21_TP), Cardinality(C21_Canonical)>>)
           /\ p[2] > 0 /\ 0 <= p[1] /\ p[1] <= p[2]
           /\ r[2] > 0 /\ 0 <= r[1] /\ r[1] <= r[2]
           /\ gout.passed <=>
                 (p[1] * 100 >= gin.precision_threshold * p[2]
                  /\ r[1] * 100 >= gin.recall_threshold * r[2])

\* "CD3E" is predicted twice, in two spellings: k = 2 and one true positive.
C21_Witness ==
    /\ gout.done /\ gout.has_metrics
    /\ gin.canonical_markers = <<"CD3E">>
    /\ gin.top_marker_genes = <<"cd3e", "CD3E">>
    /\ gout.precision_at_k = <<1, 2>>
    /\ gout.recall_at_k = <<1, 1>>

C21_WitnessEmpty ==
    /\ gout.done /\ gout.has_metrics
    /\ gin.canonical_markers = <<>>
    /\ gin.top_marker_genes = <<>>
    /\ gout.precision_at_k = <<0, 1>>
    /\ gout.recall_at_k = <<0, 1>>
    /\ ~gout.passed

\* The answer of the input without the cell types only the answer names.
C22_WithoutExtras ==
    [gin EXCEPT !.agent_distribution =
        [c \in DOMAIN gin.agent_distribution \cap DOMAIN gin.gt_distribution |->
            gin.agent_distribution[c]]]

\* C22: Distribution Comparison passes iff the total differs from a configured
\* ground-truth total by no more than its tolerance and every cell type of the
\* ground truth is in the answer with a percentage no further than the
\* percentage tolerance from the expected one; the cell types only the answer
\* names are reported in metrics and reasoning, and the same answer without
\* them gets the same passed.
C22_DistributionPassRule ==
    (gout.done /\ gout.has_metrics) =>
        LET tol == IF gin.pct_tolerance.present THEN gin.pct_tolerance.value ELSE 3
            ttol == IF gin.total_tolerance.present THEN gin.total_tolerance.value ELSE 0
            d == gin.agent_total_cells - gin.gt_total_cells.value
        IN /\ gout.passed <=>
                /\ gin.gt_total_cells.present => (d <= ttol /\ -d <= ttol)
                /\ \A c \in DOMAIN gin.gt_distribution :
                      /\ c \in DOMAIN gin.agent_distribution
                      /\ gin.agent_distribution[c] - gin.gt_distribution[c] <= tol
                      /\ gin.gt_distribution[c] - gin.agent_distribution[c] <= tol
           /\ gout.extra_cell_types = DOMAIN gin.agent_distribution \ DOMAIN gin.gt_distribution
           /\ (gout.extra_cell_types # {}) =>
                 (gout.has_extra_cell_types /\ gout.extra_in_reasoning)
           /\ gout.passed = DistributionComparison(C22_WithoutExtras).passed

\* An answer that names a cell type the ground truth does not have passes.
C22_Witness ==
    /\ gout.done /\ gout.has_metrics /\ gout.passed
    /\ gin.gt_total_cells.present
    /\ gin.agent_total_cells = 1030
    /\ DOMAIN gin.gt_distribution = {"T", "B"}
    /\ gin.agent_distribution["T"] = 42
    /\ gout.extra_cell_types = {"Other"}

C22_WitnessMissingType ==
    /\ gout.done /\ gout.has_metrics /\ ~gout.passed
    /\ ~gin.gt_total_cells.present
    /\ DOMAIN gin.gt_distribution = {"T", "B"}
    /\ DOMAIN gin.agent_distribution = {"T", "Other"}
    /\ gout.cell_type_pass["T"]

\* The entries of per_gene_stats whose score reaches the per-gene cutoff.
C23_HighEntries ==
    {i \in DOMAIN gin.per_gene_stats :
        gin.per_gene_stats[i].auroc >= gin.thresholds.per_gene_cutoff}

\* C23: Marker Gene Separation passes iff the mean the agent reports reaches
\* the mean threshold and fraction_high reaches the fraction threshold, where
\* fraction_high is the number of entries of per_gene_stats at or above the
\* per-gene cutoff over the number of entries; the recomputed mean plays no
\* part.
C23_SeparationPassRule ==
    (gout.done /\ gout.has_metrics) =>
        /\ gout.fraction_high = <<Cardinality(C23_HighEntries), Len(gin.per_gene_stats)>>
        /\ gout.passed <=>
              /\ gin.mean_auroc >= gin.thresholds.mean_auroc
              /\ Cardinality(C23_HighEntries) * 100
                    >= gin.thresholds.fraction_high * Len(gin.per_gene_stats)

\* The same rule for the answers that name every gene once.
C23_RuleForDistinctGenes ==
    (\A i, j \in DOMAIN gin.per_gene_stats :
        gin.per_gene_stats[i].gene = gin.per_gene_stats[j].gene => i = j)
    => C23_SeparationPassRule

\* C24: with the five fields present, Spatial Adjacency returns passed = true
\* iff the four metric checks hold and adjacency_pass is the boolean true,
\* and passed = false in every other case.
C24_PassedIsBooleanAnd ==
    (gout.done /\ ~gin.missing) =>
        LET all ==
              /\ gin.answer.median_ic_to_pc_um <= gin.thresholds.max_median_ic_to_pc_um
              /\ gin.answer.p90_ic_to_pc_um <= gin.thresholds.max_p90_ic_to_pc_um
              /\ gin.answer.pct_ic_within_15um >= gin.thresholds.min_pct_ic_within_15um
              /\ gin.answer.pct_ic_mixed_within_55um
                    >= gin.thresholds.min_pct_ic_mixed_within_55um
              /\ gin.answer.adjacency_pass = "True"
        IN gout.passed = (IF all THEN "True" ELSE "False")

\* The same rule for the answers whose adjacency_pass is a boolean.
C24_RuleForBooleans ==
    gin.answer.adjacency_pass \in {"True", "False"} => C24_PassedIsBooleanAnd

\* The collected answer meets the pass condition of the configured grader.
C25_MeetsPassCondition ==
    result_dict.agent_answer =
        (IF test_case.grader = "multiple_choice" THEN "mc_good" ELSE "good")

\* C25: for every registered grader type, a run whose collected answer meets
\* that grader's pass condition returns passed = true, and the verdict is the
\* grader's own and not a grader-error result.
C25_EveryRegisteredGraderGrades ==
    (pc = "returned" /\ test_case.grader \in GRADER_REGISTRY /\ C25_MeetsPassCondition) =>
        /\ result_dict.passed = "True"
        /\ result_dict.grader_result.reasoning = "verdict"
        /\ ~hist.grader_raised

\* The same for the graders that define evaluate_answer.
C25_RuleForDefiningGraders ==
    test_case.grader \in DefinesEvaluateAnswer => C25_EveryRegisteredGraderGrades

\* The submit_response calls of assistant messages that hold an answer block,
\* as <<message, block>> positions.
C26_Submissions ==
    {p \in (DOMAIN gin.conversation) \X (1..MaxBlocks) :
        /\ gin.conversation[p[1]].role = "assistant"
        /\ p[2] \in DOMAIN gin.conversation[p[1]].content
        /\ gin.conversation[p[1]].content[p[2]] \in {"submit_bad", "submit_A", "submit_B"}}

\* The chronologically latest of them.
C26_Latest ==
    CHOOSE p \in C26_Submissions :
        \A q \in C26_Submissions : q[1] < p[1] \/ (q[1] = p[1] /\ q[2] <= p[2])

\* C26: extraction returns the parsed content of the chronologically latest
\* assistant submit_response call that holds an answer block, also when one
\* message holds several; with no such call, or when the text of the latest
\* one does not parse, there is no answer, and evaluate returns passed = false
\* with a diagnostic and without raising.
C26_LatestSubmissionWins ==
    gout.done =>
        /\ gout.agent_answer =
              (IF C26_Submissions = {} THEN None
               ELSE LET b == gin.conversation[C26_Latest[1]].content[C26_Latest[2]]
                    IN CASE b = "submit_A" -> "A" [] b = "submit_B" -> "B" [] OTHER -> None)
        /\ gout.agent_answer = None =>
              /\ ~gout.passed /\ ~gout.raised
              /\ gout.reasoning = "Failed to extract answer from conversation history"

\* The same rule for the transcripts in which no message holds two such calls.
C26_RuleForOneCallPerMessage ==
    (\A p, q \in C26_Submissions : p[1] = q[1] => p = q) => C26_LatestSubmissionWins

\* C27: a record of the batch output has passed = false only for an
\* evaluation whose run returned a failing verdict; an evaluation that ended
\* in an error is recorded with passed other than false, and the failed count
\* of the summary counts the graded failures only.
C27_FailedMeansGradedFailure ==
    /\ \A i \in DOMAIN results :
          /\ results[i].passed = "False" => ~results[i].has_error
          /\ results[i].has_error => results[i].passed # "False"
    /\ summary.exists =>
          summary.failed =
              Cardinality({i \in DOMAIN results :
                              ~results[i].has_error /\ results[i].passed = "False"})

\* The same rule for the batches in which no evaluation ended in an error.
C27_RuleWithoutErrors ==
    (\A i \in DOMAIN results : ~results[i].has_error) => C27_FailedMeansGradedFailure

\* The URIs that the specs of the batch that parse refer to.
C28_ReferencedUris ==
    UNION {Range(TestCaseOf(eval_files[i]).data_node) :
              i \in {j \in DOMAIN eval_files : Parseable(eval_files[j])}}

\* Once the evaluations run, every referenced URI is cached, and a runner's
\* fetch can take neither the retrieval branch nor fail.
C28_Prefetched ==
    bpc = "evals" =>
        /\ \A uri \in C28_ReferencedUris : CacheHit(manifest, files, uri)
        /\ ~ENABLED StageDownload
        /\ ~ENABLED StageFail

\* While the evaluations run there is no retrieval and no manifest write.
C28_NoRetrievalDuringEvals ==
    bpc = "evals" =>
        /\ downloads' = downloads
        /\ manifest' = manifest
        /\ files' = files
        /\ writers' = writers

\* C28: in a batch every remote retrieval is over before the first
\* evaluation starts: every fetch a runner of the batch makes for a URI of a
\* spec that parses is a cache hit, with no retrieval and no manifest write.
C28_RunnerFetchesAreHits == []C28_Prefetched /\ [][C28_NoRetrievalDuringEvals]_vars

\* The runner of plain.json has staged both its datasets, each of which the
\* prefetch retrieved once.
C28_Witness ==
    /\ bpc = "evals" /\ pc = "staging" /\ node = 3
    /\ test_case.data_node = <<"u1", "u3">>
    /\ downloads["u1"] = 1 /\ downloads["u3"] = 1
    /\ Len(returned["u3"]) = 2

\* The agent function returned an answer object itself, not a wrapper.
C29_ReturnedObjectDirectly ==
    /\ hist.agent_invoked /\ ~hist.agent_raised
    /\ ~hist.raw_result.wrapper
    /\ hist.raw_result.answer \in Objects

\* C29: an answer object that the agent function returns directly is stored
\* as agent_answer and handed to the grader as it is, also when it has a
\* field named "answer".
C29_DirectObjectKeptWhole ==
    (pc = "returned" /\ C29_ReturnedObjectDirectly) =>
        /\ result_dict.agent_answer = hist.raw_result.answer
        /\ test_case.grader \in GRADER_REGISTRY =>
              result_dict.grader_result = GradeResult(test_case.grader, hist.raw_result.answer)

\* The same rule for the answer objects without a field named "answer".
C29_RuleWithoutAnswerField ==
    ~HasAnswerKey(hist.raw_result.answer) => C29_DirectObjectKeptWhole

\* The manifest as it was before the workspace calls.
C30_ManifestBefore ==
    IF ManifestPath \in DOMAIN staged.before THEN staged.before[ManifestPath].entries
    ELSE EmptyManifest

\* C30: after any sequence of setup_workspace, download_data staging and
\* cleanup_workspace, every dataset file the cache held is still there with
\* its content and every entry of the manifest is as it was.
C30_CacheUntouched ==
    /\ \A p \in DOMAIN staged.before :
          staged.before[p].kind = "file" => (p \in DOMAIN disk /\ disk[p] = staged.before[p])
    /\ \A u \in DOMAIN C30_ManifestBefore :
          u \in DOMAIN ManifestOn(disk) /\ ManifestOn(disk)[u] = C30_ManifestBefore[u]

\* The same rule while every task id is a plain name.
C30_RuleForPlainIds == ~staged.dotdot => C30_CacheUntouched

\* Two datasets with the basename x.csv were staged into one workspace: the
\* link of the first was replaced by the link of the second.
C30_SameBasenameStaged ==
    /\ staged.work_dir = <<"workspace", "e1">>
    /\ <<"workspace", "e1", "x.csv">> \in DOMAIN disk
    /\ disk[<<"workspace", "e1", "x.csv">>] = [kind |-> "link", target |-> <<"cache", "h3__x.csv">>]
    /\ <<"cache", "h1__x.csv">> \in DOMAIN staged.before

====
